---- MODULE Spec2Model ----
(***************************************************************************)
(* Pack ingestion and normalization of the Lumiverse helper:               *)
(* scripts/convertPacks.js (extractMetadata, processWorldBook,             *)
(* convertPack, main) and the extension's own copies of extractMetadata    *)
(* and processWorldBook.                                                   *)
(*                                                                         *)
(* Text is a sequence of tokens.  A token is a piece of text that the      *)
(* patterns of the code treat as a unit: "(" and ")", a blank, a line      *)
(* break, the opening of an inline tag ("[lumia_img="), its closing "]",   *)
(* a category label, a keyword, a plain word.  A JavaScript value is a     *)
(* record tagged by its type, so that null, undefined, text, numbers and   *)
(* arrays stay distinct and truthiness is computed as JavaScript does.     *)
(***************************************************************************)
EXTENDS Integers, Sequences, FiniteSets, TLC

VARIABLES
    content,        \* extractMetadata: the text handed to it
    meta,           \* extractMetadata (scripts/convertPacks.js): its result
    metaExt,        \* extractMetadata (extension): its result
    entries,        \* processWorldBook: the entries array
    idx,            \* processWorldBook: number of entries the loop has consumed
    lumiaMap,       \* processWorldBook (script): Map name -> item, insertion order
    loomItems,      \* processWorldBook (script): the loomItems array
    extMap,         \* processWorldBook (extension): Map name -> item
    pc,             \* main: position in the command-line run
    argv,           \* main: process.argv.slice(2)
    inputFile,      \* main: what the file system holds at inputPath
    inputData,      \* main: the parsed payload
    convertedPack,  \* main: result of convertPack
    outputFile,     \* main: what the run has written at outputPath
    exitCode,       \* main: -1 while running, else the process exit code
    settings,       \* extension: the settings object
    extension_settings, \* extension: extension_settings[SETTINGS_KEY]
    shown,          \* extension: what the handler that has just run rendered
    migrations,     \* extension: how often migrateSettings has returned true
    loaded,         \* extension: the object loadSettings has just handed to
                    \* migrateSettings
    fetches,        \* extension: the fetchWorldBook calls made so far, each
                    \* with its position
    currentRandomLumia, \* extension: the item the randomLumia macros read
    mountedRoots,   \* react-ui: the Map from mount id to React root
    roots,          \* react-ui: the React roots created so far; a root is
                    \* mounted until root.unmount() is called
    dom,            \* react-ui: the roots whose element is in the document
    reactUILoaded,  \* bridge: the flag of that name
    cleanupFn,      \* bridge: the mount id cleanupFn unmounts, or null
    viewportCleanupFn, \* bridge: the mount id viewportCleanupFn unmounts
    bundleLoaded,   \* bridge: window.LumiverseUI is there
    listeners,      \* bridge: CHAT_CHANGED listeners registered by setupEventSync
    initCalls,      \* bridge: the initializeReactUI calls, each with its position
    mountRuns       \* bridge: runs of the mount block since the last
                    \* destroyReactUI

vars == <<content, meta, metaExt, entries, idx, lumiaMap, loomItems, extMap,
          pc, argv, inputFile, inputData, convertedPack, outputFile, exitCode,
          settings, extension_settings, shown, migrations, loaded,
          fetches, currentRandomLumia, mountedRoots, roots, dom,
          reactUILoaded, cleanupFn, viewportCleanupFn, bundleLoaded, listeners,
          initCalls, mountRuns>>

metaVars == <<content, meta, metaExt>>
bookVars == <<entries, idx, lumiaMap, loomItems, extMap>>
mainVars == <<pc, argv, inputFile, inputData, convertedPack, outputFile, exitCode>>
settingsVars == <<settings, extension_settings, shown, migrations, loaded>>
fetchVars == <<fetches>>
randomVars == <<currentRandomLumia>>
mountVars == <<mountedRoots, roots, dom>>
bridgeVars == <<reactUILoaded, cleanupFn, viewportCleanupFn, bundleLoaded,
                listeners, initCalls, mountRuns>>
uiVars == <<fetchVars, randomVars, mountVars, bridgeVars>>

-----------------------------------------------------------------------------
(* JavaScript values *)

Undefined == [t |-> "undefined"]
JSNull == [t |-> "null"]
Str(s) == [t |-> "string", s |-> s]
Num(n) == [t |-> "number", n |-> n]
Arr(a) == [t |-> "array", a |-> a]

\* ToBoolean: undefined, null, "" and 0 are falsy; arrays and objects are truthy
Truthy(v) ==
    CASE v.t = "undefined" -> FALSE
      [] v.t = "null" -> FALSE
      [] v.t = "string" -> v.s # <<>>
      [] v.t = "number" -> v.n # 0
      [] OTHER -> TRUE

\* A mapping (an object used as a dictionary) keeps its values in key order
Mapping(vals) == [t |-> "object", values |-> vals]

\* Object.values
ObjectValues(v) ==
    IF v.t = "array" THEN v.a
    ELSE IF v.t = "object" /\ "values" \in DOMAIN v THEN v.values
    ELSE <<>>

\* v.f : undefined when v has no such property
Get(v, f) == IF v.t = "object" /\ f \in DOMAIN v THEN v[f] ELSE Undefined

\* a || b
Or(a, b) == IF Truthy(a) THEN a ELSE b

\* a ?? b
Nullish(a, b) == IF a.t \in {"undefined", "null"} THEN b ELSE a

-----------------------------------------------------------------------------
(* Text *)

SP == " "
NL == "\n"
IMG == "[lumia_img="
AUTH == "[lumia_author="
RB == "]"
LP == "("
RP == ")"

IsSpace(tok) == tok \in {SP, NL}

Range(s) == {s[k] : k \in 1..Len(s)}

\* s[a..b], empty when a > b
Slice(s, a, b) == IF a > b THEN <<>> ELSE SubSeq(s, a, b)

Min(S) == CHOOSE m \in S : \A n \in S : m <= n
Max(S) == CHOOSE m \in S : \A n \in S : n <= m

\* String.prototype.trim
Trim(s) ==
    LET keep == {k \in 1..Len(s) : ~IsSpace(s[k])}
    IN  IF keep = {} THEN <<>> ELSE SubSeq(s, Min(keep), Max(keep))

\* positions at which lit occurs in s
Occurrences(s, lit) ==
    {k \in 1..(Len(s) - Len(lit) + 1) : SubSeq(s, k, k + Len(lit) - 1) = lit}

\* String.prototype.replace(lit, ''): the first occurrence of lit is removed
\* a replace that takes out every occurrence of the literal, not the first
RECURSIVE RemoveFirst_Every(_, _)
RemoveFirst_Every(s, lit) ==
    IF Occurrences(s, lit) = {} THEN s
    ELSE LET k == Min(Occurrences(s, lit))
         IN  Slice(s, 1, k - 1)
                \o RemoveFirst_Every(Slice(s, k + Len(lit), Len(s)), lit)

RemoveFirst(s, lit) ==
    IF Occurrences(s, lit) = {} THEN s
    ELSE LET k == Min(Occurrences(s, lit))
         IN  Slice(s, 1, k - 1) \o Slice(s, k + Len(lit), Len(s))

NoMatch == [found |-> FALSE, from |-> 0, to |-> 0]

\* /<open>([^\]]+)\]/ : open, one or more tokens other than "]", then "]".
\* The class is greedy and cannot cross a "]", so the match ends at the first
\* "]" after the opening, and fails at an opening directly followed by "]".
MatchTagClass(s, open) ==
    LET firstRB(k) == Min({j \in (k + 1)..Len(s) : s[j] = RB})
        starts == {k \in 1..Len(s) :
                     /\ s[k] = open
                     /\ \E j \in (k + 1)..Len(s) : s[j] = RB
                     /\ firstRB(k) >= k + 2}
    IN  IF starts = {} THEN NoMatch
        ELSE [found |-> TRUE, from |-> Min(starts), to |-> firstRB(Min(starts))]

\* /<open>(.+?)\]/ : open, one or more tokens other than a line break (lazy),
\* then "]".  The first token after the opening is taken whatever it is.
MatchTagLazy(s, open) ==
    LET ends(k) == {j \in (k + 2)..Len(s) :
                      /\ s[j] = RB
                      /\ \A m \in (k + 1)..(j - 1) : s[m] # NL}
        starts == {k \in 1..Len(s) : s[k] = open /\ ends(k) # {}}
    IN  IF starts = {} THEN NoMatch
        ELSE [found |-> TRUE, from |-> Min(starts), to |-> Min(ends(Min(starts)))]

\* match[0] and match[1] of a tag match
Whole(s, m) == SubSeq(s, m.from, m.to)
Group(s, m) == Slice(s, m.from + 1, m.to - 1)

-----------------------------------------------------------------------------
(* extractMetadata *)

\* scripts/convertPacks.js: the tag is matched on the original text and
\* removed from the text cleaned so far
extractMetadata(c) ==
    LET imgMatch == MatchTagClass(c, IMG)
        authMatch == MatchTagClass(c, AUTH)
        image == IF imgMatch.found THEN Str(Trim(Group(c, imgMatch))) ELSE JSNull
        clean1 == IF imgMatch.found
                  THEN Trim(RemoveFirst(c, Whole(c, imgMatch)))
                  ELSE c
        author == IF authMatch.found THEN Str(Trim(Group(c, authMatch))) ELSE JSNull
        clean2 == IF authMatch.found
                  THEN Trim(RemoveFirst(clean1, Whole(c, authMatch)))
                  ELSE clean1
    IN  [image |-> image, author |-> author, content |-> clean2]

\* the extension's copy: the same body with the lazy pattern
index_extractMetadata(c) ==
    LET imgMatch == MatchTagLazy(c, IMG)
        authMatch == MatchTagLazy(c, AUTH)
        image == IF imgMatch.found THEN Str(Trim(Group(c, imgMatch))) ELSE JSNull
        clean1 == IF imgMatch.found
                  THEN Trim(RemoveFirst(c, Whole(c, imgMatch)))
                  ELSE c
        author == IF authMatch.found THEN Str(Trim(Group(c, authMatch))) ELSE JSNull
        clean2 == IF authMatch.found
                  THEN Trim(RemoveFirst(clean1, Whole(c, authMatch)))
                  ELSE clean1
    IN  [image |-> image, author |-> author, content |-> clean2]

-----------------------------------------------------------------------------
(* processWorldBook: the patterns applied to an entry's comment and content *)

LOOM_UTILITIES == "Loom Utilities"
RETROFITS == "Retrofits"
NARRATIVE_STYLE == "Narrative Style"
SETVAR == "{{setvar::lumia_behavior_x::"
SETGLOBALVAR == "{{setglobalvar::lumia_personality_x::"
CLOSE == "}}"

\* the three category texts the script compares the comment's prefix with
LoomCategories == {<<LOOM_UTILITIES>>, <<RETROFITS>>, <<NARRATIVE_STYLE>>}

\* String.prototype.toLowerCase, token by token
LowerTok(tok) ==
    CASE tok = "Lumia" -> "lumia"
      [] tok = "LUMIA" -> "lumia"
      [] tok = "Definition" -> "definition"
      [] tok = "Behavior" -> "behavior"
      [] tok = "Personality" -> "personality"
      [] tok = "Aria" -> "aria"
      [] tok = "Bob" -> "bob"
      [] tok = LOOM_UTILITIES -> "loom utilities"
      [] tok = RETROFITS -> "retrofits"
      [] tok = NARRATIVE_STYLE -> "narrative style"
      [] OTHER -> tok

ToLowerCase(s) == [k \in 1..Len(s) |-> LowerTok(s[k])]

\* String.prototype.includes for a one-token needle
Includes(s, tok) == \E k \in 1..Len(s) : s[k] = tok

NoGroup == [found |-> FALSE, group |-> <<>>]

\* /^(.+?)\s*\(/ : the shortest non-empty prefix (no line break in it) that
\* is followed by optional white space and "("
MatchCategory(c) ==
    LET ks == {k \in 1..Len(c) :
                 /\ \A m \in 1..k : c[m] # NL
                 /\ \E p \in (k + 1)..Len(c) :
                      /\ c[p] = LP
                      /\ \A m \in (k + 1)..(p - 1) : IsSpace(c[m])}
    IN  IF ks = {} THEN NoGroup
        ELSE [found |-> TRUE, group |-> SubSeq(c, 1, Min(ks))]

\* /^(?:Loom Utilities|Retrofits|Narrative Style)\s*\((.+)\)\s*$/ : the
\* category, optional white space, "(", the longest non-empty text without a
\* line break, ")", optional white space, end of the comment
\* the Loom name pattern without its end anchor
MatchLoomName_Unanchored(c) ==
    LET ps == {p \in 2..Len(c) :
                 /\ <<c[1]>> \in LoomCategories
                 /\ c[p] = LP
                 /\ \A m \in 2..(p - 1) : IsSpace(c[m])}
        qs(p) == {q \in (p + 1)..(Len(c) - 1) :
                    /\ \A m \in (p + 1)..q : c[m] # NL
                    /\ c[q + 1] = RP}
    IN  IF ps = {} THEN NoGroup
        ELSE IF qs(Min(ps)) = {} THEN NoGroup
        ELSE [found |-> TRUE, group |-> SubSeq(c, Min(ps) + 1, Max(qs(Min(ps))))]

MatchLoomName(c) ==
    LET ps == {p \in 2..Len(c) :
                 /\ <<c[1]>> \in LoomCategories
                 /\ c[p] = LP
                 /\ \A m \in 2..(p - 1) : IsSpace(c[m])}
        qs(p) == {q \in (p + 1)..(Len(c) - 1) :
                    /\ \A m \in (p + 1)..q : c[m] # NL
                    /\ c[q + 1] = RP
                    /\ \A m \in (q + 2)..Len(c) : IsSpace(c[m])}
    IN  IF ps = {} THEN NoGroup
        ELSE IF qs(Min(ps)) = {} THEN NoGroup
        ELSE [found |-> TRUE, group |-> SubSeq(c, Min(ps) + 1, Max(qs(Min(ps))))]

\* /\((.+?)\)/ : the leftmost "(" that has a ")" at least one token later on
\* the same line, up to the nearest such ")"
MatchName(c) ==
    LET ends(k) == {j \in (k + 2)..Len(c) :
                      /\ c[j] = RP
                      /\ \A m \in (k + 1)..(j - 1) : c[m] # NL}
        starts == {k \in 1..Len(c) : c[k] = LP /\ ends(k) # {}}
    IN  IF starts = {} THEN NoGroup
        ELSE [found |-> TRUE,
              group |-> SubSeq(c, Min(starts) + 1, Min(ends(Min(starts))) - 1)]

\* /{{setvar::lumia_behavior_\w+::([\s\S]*?)}}/ and
\* /{{setglobalvar::lumia_personality_\w+::([\s\S]*?)}}/ : the leftmost
\* opening that has a "}}" after it, up to the nearest "}}"
MatchMarker(c, open) ==
    LET ends(k) == {j \in (k + 1)..Len(c) : c[j] = CLOSE}
        starts == {k \in 1..Len(c) : c[k] = open /\ ends(k) # {}}
    IN  IF starts = {} THEN NoGroup
        ELSE [found |-> TRUE,
              group |-> Slice(c, Min(starts) + 1, Min(ends(Min(starts))) - 1)]

-----------------------------------------------------------------------------
(* processWorldBook of scripts/convertPacks.js *)

GENDER_SHE_HER == 0

\* the item created for a name that the map does not hold yet
NewLumia(name) ==
    [t |-> "object",
     lumiaName |-> Str(name),
     avatarUrl |-> JSNull,
     lumiaPersonality |-> JSNull,
     lumiaBehavior |-> JSNull,
     lumiaDefinition |-> JSNull,
     authorName |-> JSNull,
     genderIdentity |-> Num(GENDER_SHE_HER),
     version |-> Num(1)]

\* Map.prototype.has / position of the item stored under a name
HasName(map, name) == \E k \in 1..Len(map) : map[k].lumiaName = Str(name)
PosOf(map, name) == CHOOSE k \in 1..Len(map) : map[k].lumiaName = Str(name)

\* (entry.comment || '').trim()
CommentOf(e) == Trim(Or(e.comment, Str(<<>>)).s)

\* the if / else-if chain that sets `type`; "none" stands for null
\* a type chain that asks the outlet identifier first and the keywords after
EntryType_OutletFirst(e, comment, categoryMatch) ==
    LET commentLower == ToLowerCase(comment)
    IN  IF e.outletName = Str(<<"Lumia_Description">>) THEN "definition"
        ELSE IF e.outletName = Str(<<"Lumia_Behavior">>) THEN "behavior"
        ELSE IF e.outletName = Str(<<"Lumia_Personality">>) THEN "personality"
        ELSE IF Includes(commentLower, "definition") THEN "definition"
        ELSE IF Includes(commentLower, "behavior") THEN "behavior"
        ELSE IF Includes(commentLower, "personality") THEN "personality"
        ELSE IF categoryMatch.found
                /\ ToLowerCase(Trim(categoryMatch.group)) = <<"lumia">>
        THEN "definition"
        ELSE IF Includes(e.content.s, IMG)
        THEN "definition"
        ELSE "none"

EntryType(e, comment, categoryMatch) ==
    LET commentLower == ToLowerCase(comment)
    IN  IF e.outletName = Str(<<"Lumia_Description">>)
           \/ Includes(commentLower, "definition")
        THEN "definition"
        ELSE IF e.outletName = Str(<<"Lumia_Behavior">>)
                \/ Includes(commentLower, "behavior")
        THEN "behavior"
        ELSE IF e.outletName = Str(<<"Lumia_Personality">>)
                \/ Includes(commentLower, "personality")
        THEN "personality"
        ELSE IF categoryMatch.found
                /\ ToLowerCase(Trim(categoryMatch.group)) = <<"lumia">>
        THEN "definition"
        ELSE IF Includes(e.content.s, IMG)
        THEN "definition"
        ELSE "none"

\* a definition that takes avatar and author from the fragment, tag or not
ApplyDefinition_Clearing(lumia, text) ==
    LET m == extractMetadata(text)
    IN  [lumia EXCEPT !.lumiaDefinition = Str(m.content),
                      !.avatarUrl = m.image,
                      !.authorName = m.author]

\* type === 'definition'
ApplyDefinition(lumia, text) ==
    LET m == extractMetadata(text)
    IN  [lumia EXCEPT !.lumiaDefinition = Str(m.content),
                      !.avatarUrl = IF Truthy(m.image) THEN m.image ELSE @,
                      !.authorName = IF Truthy(m.author) THEN m.author ELSE @]

\* type === 'behavior'
ApplyBehavior(lumia, text) == [lumia EXCEPT !.lumiaBehavior = Str(text)]

\* a personality fragment whose behavior marker always fills the behavior
ApplyPersonality_Overwriting(lumia, text) ==
    LET behaviorMatch == MatchMarker(text, SETVAR)
        personalityMatch == MatchMarker(text, SETGLOBALVAR)
    IN  [lumia EXCEPT
           !.lumiaBehavior = IF behaviorMatch.found
                             THEN Str(Trim(behaviorMatch.group)) ELSE @,
           !.lumiaPersonality = IF personalityMatch.found
                                THEN Str(Trim(personalityMatch.group))
                                ELSE Str(text)]

\* type === 'personality', with the legacy split
ApplyPersonality(lumia, text) ==
    LET behaviorMatch == MatchMarker(text, SETVAR)
        personalityMatch == MatchMarker(text, SETGLOBALVAR)
    IN  [lumia EXCEPT
           !.lumiaBehavior = IF behaviorMatch.found /\ ~Truthy(@)
                             THEN Str(Trim(behaviorMatch.group)) ELSE @,
           !.lumiaPersonality = IF personalityMatch.found
                                THEN Str(Trim(personalityMatch.group))
                                ELSE Str(text)]

ApplyType(lumia, type, text) ==
    CASE type = "definition" -> ApplyDefinition(lumia, text)
      [] type = "behavior" -> ApplyBehavior(lumia, text)
      [] type = "personality" -> ApplyPersonality(lumia, text)
      [] OTHER -> lumia

\* the Loom item pushed for a matching comment
LoomOf(e, category, loomNameMatch) ==
    [t |-> "object",
     loomName |-> Str(Trim(loomNameMatch.group)),
     loomContent |-> Str(Trim(e.content.s)),
     loomCategory |-> Str(category),
     authorName |-> JSNull,
     version |-> Num(1)]

\* the map is looked up, and the item created, before the type is known
\* a step that creates an item for every entry, known name or not
LumiaStep_AlwaysAppend(map, e, comment, categoryMatch, name) ==
    LET map1 == Append(map, NewLumia(name))
        type == EntryType(e, comment, categoryMatch)
    IN  [map1 EXCEPT ![Len(map1)] = ApplyType(@, type, e.content.s)]

LumiaStep(map, e, comment, categoryMatch, name) ==
    LET map1 == IF HasName(map, name) THEN map ELSE Append(map, NewLumia(name))
        k == PosOf(map1, name)
        type == EntryType(e, comment, categoryMatch)
    IN  [map1 EXCEPT ![k] = ApplyType(@, type, e.content.s)]

\* one pass of `for (const entry of entries)` over st = [lumiaMap, loomItems]
\* a loop body that files an entry without a parenthesized name under its
\* whole comment
ForEntry_NamelessKept(st, e) ==
    IF ~Truthy(e.content) \/ e.content.t # "string" THEN st
    ELSE
      LET comment == CommentOf(e)
          categoryMatch == MatchCategory(comment)
          category == Trim(categoryMatch.group)
          nameMatch == MatchName(comment)
      IN  IF categoryMatch.found /\ category \in LoomCategories
          THEN LET loomNameMatch == MatchLoomName(comment)
               IN  IF ~loomNameMatch.found THEN st
                   ELSE [st EXCEPT !.loomItems =
                            Append(@, LoomOf(e, category, loomNameMatch))]
          ELSE [st EXCEPT !.lumiaMap =
                   LumiaStep(@, e, comment, categoryMatch,
                             IF nameMatch.found THEN Trim(nameMatch.group)
                             ELSE comment)]

ForEntry(st, e) ==
    IF ~Truthy(e.content) \/ e.content.t # "string" THEN st
    ELSE
      LET comment == CommentOf(e)
          categoryMatch == MatchCategory(comment)
          category == Trim(categoryMatch.group)
          nameMatch == MatchName(comment)
      IN  IF categoryMatch.found /\ category \in LoomCategories
          THEN LET loomNameMatch == MatchLoomName(comment)
               IN  IF ~loomNameMatch.found THEN st
                   ELSE [st EXCEPT !.loomItems =
                            Append(@, LoomOf(e, category, loomNameMatch))]
          ELSE IF ~nameMatch.found THEN st
          ELSE [st EXCEPT !.lumiaMap =
                   LumiaStep(@, e, comment, categoryMatch, Trim(nameMatch.group))]

RECURSIVE ForEntries(_, _)
ForEntries(st, es) ==
    IF es = <<>> THEN st ELSE ForEntries(ForEntry(st, Head(es)), Tail(es))

\* the entries of data: data itself when it is an array, the values of
\* data.entries when that is set, none otherwise
EntriesOf(data) ==
    IF data.t = "array" THEN data.a
    ELSE IF Truthy(Get(data, "entries")) THEN ObjectValues(Get(data, "entries"))
    ELSE <<>>

processWorldBook(data) ==
    LET st == ForEntries([lumiaMap |-> <<>>, loomItems |-> <<>>], EntriesOf(data))
    IN  [lumiaItems |-> st.lumiaMap, loomItems |-> st.loomItems]

-----------------------------------------------------------------------------
(* processWorldBook of the extension: no Loom entries, three type rules *)

index_NewLumia(name) ==
    [t |-> "object",
     lumiaDefName |-> Str(name),
     lumia_img |-> JSNull,
     lumia_personality |-> JSNull,
     lumia_behavior |-> JSNull,
     lumiaDef |-> JSNull,
     defAuthor |-> JSNull]

index_HasName(map, name) == \E k \in 1..Len(map) : map[k].lumiaDefName = Str(name)
index_PosOf(map, name) == CHOOSE k \in 1..Len(map) : map[k].lumiaDefName = Str(name)

index_EntryType(e, comment) ==
    LET commentLower == ToLowerCase(comment)
    IN  IF e.outletName = Str(<<"Lumia_Description">>)
           \/ Includes(commentLower, "definition")
        THEN "definition"
        ELSE IF e.outletName = Str(<<"Lumia_Behavior">>)
                \/ Includes(commentLower, "behavior")
        THEN "behavior"
        ELSE IF e.outletName = Str(<<"Lumia_Personality">>)
                \/ Includes(commentLower, "personality")
        THEN "personality"
        ELSE "none"

index_ApplyType(lumia, type, text) ==
    LET m == index_extractMetadata(text)
        behaviorMatch == MatchMarker(text, SETVAR)
        personalityMatch == MatchMarker(text, SETGLOBALVAR)
    IN  CASE type = "definition" ->
               [lumia EXCEPT !.lumiaDef = Str(m.content),
                             !.lumia_img = IF Truthy(m.image) THEN m.image ELSE @,
                             !.defAuthor = IF Truthy(m.author) THEN m.author ELSE @]
          [] type = "behavior" ->
               [lumia EXCEPT !.lumia_behavior = Str(text)]
          [] type = "personality" ->
               [lumia EXCEPT
                  !.lumia_behavior = IF behaviorMatch.found /\ ~Truthy(@)
                                     THEN Str(Trim(behaviorMatch.group)) ELSE @,
                  !.lumia_personality = IF personalityMatch.found
                                        THEN Str(Trim(personalityMatch.group))
                                        ELSE Str(text)]
          [] OTHER -> lumia

index_ForEntry(map, e) ==
    IF ~Truthy(e.content) \/ e.content.t # "string" THEN map
    ELSE
      LET comment == CommentOf(e)
          nameMatch == MatchName(comment)
          name == Trim(nameMatch.group)
          map1 == IF index_HasName(map, name) THEN map
                  ELSE Append(map, index_NewLumia(name))
      IN  IF ~nameMatch.found THEN map
          ELSE [map1 EXCEPT ![index_PosOf(map1, name)] =
                   index_ApplyType(@, index_EntryType(e, comment), e.content.s)]

RECURSIVE index_ForEntries(_, _)
index_ForEntries(map, es) ==
    IF es = <<>> THEN map
    ELSE index_ForEntries(index_ForEntry(map, Head(es)), Tail(es))

index_processWorldBook(data) == index_ForEntries(<<>>, EntriesOf(data))

-----------------------------------------------------------------------------
(* convertPack *)

\* a conversion in which the new field wins over the legacy one
convertLumiaItem_NewFieldFirst(oldItem) ==
    [t |-> "object",
     lumiaName |-> Or(Get(oldItem, "lumiaName"), Get(oldItem, "lumiaDefName")),
     lumiaDefinition |->
        Or(Or(Get(oldItem, "lumiaDefinition"), Get(oldItem, "lumiaDef")), JSNull),
     lumiaPersonality |->
        Or(Or(Get(oldItem, "lumiaPersonality"), Get(oldItem, "lumia_personality")), JSNull),
     lumiaBehavior |->
        Or(Or(Get(oldItem, "lumiaBehavior"), Get(oldItem, "lumia_behavior")), JSNull),
     avatarUrl |-> Or(Or(Get(oldItem, "avatarUrl"), Get(oldItem, "lumia_img")), JSNull),
     genderIdentity |-> Nullish(Get(oldItem, "genderIdentity"), Num(GENDER_SHE_HER)),
     authorName |-> Or(Or(Get(oldItem, "authorName"), Get(oldItem, "defAuthor")), JSNull),
     version |-> Num(1)]

\* convertLumiaItem: the legacy field wins over the new one
convertLumiaItem(oldItem) ==
    [t |-> "object",
     lumiaName |-> Or(Get(oldItem, "lumiaDefName"), Get(oldItem, "lumiaName")),
     lumiaDefinition |->
        Or(Or(Get(oldItem, "lumiaDef"), Get(oldItem, "lumiaDefinition")), JSNull),
     lumiaPersonality |->
        Or(Or(Get(oldItem, "lumia_personality"), Get(oldItem, "lumiaPersonality")), JSNull),
     lumiaBehavior |->
        Or(Or(Get(oldItem, "lumia_behavior"), Get(oldItem, "lumiaBehavior")), JSNull),
     avatarUrl |-> Or(Or(Get(oldItem, "lumia_img"), Get(oldItem, "avatarUrl")), JSNull),
     genderIdentity |-> Nullish(Get(oldItem, "genderIdentity"), Num(GENDER_SHE_HER)),
     authorName |-> Or(Or(Get(oldItem, "defAuthor"), Get(oldItem, "authorName")), JSNull),
     version |-> Num(1)]

convertLoomItem(oldItem) ==
    [t |-> "object",
     loomName |-> Get(oldItem, "loomName"),
     loomContent |-> Get(oldItem, "loomContent"),
     loomCategory |-> Get(oldItem, "loomCategory"),
     authorName |-> Or(Get(oldItem, "authorName"), JSNull),
     version |-> Num(1)]

\* item.lumiaDefName || item.lumiaName
IsLumiaShaped(item) ==
    Truthy(Or(Get(item, "lumiaDefName"), Get(item, "lumiaName")))

\* the else-if of the loop over inputData.items
IsLoomShaped(item) == ~IsLumiaShaped(item) /\ Truthy(Get(item, "loomCategory"))

RECURSIVE MapItems(_, _)
MapItems(items, kind) ==
    IF items = <<>> THEN <<>>
    ELSE LET item == Head(items)
             rest == MapItems(Tail(items), kind)
         IN  IF kind = "lumia" /\ IsLumiaShaped(item)
             THEN <<convertLumiaItem(item)>> \o rest
             ELSE IF kind = "loom" /\ IsLoomShaped(item)
             THEN <<convertLoomItem(item)>> \o rest
             ELSE rest

Returned(v) == [threw |-> FALSE, value |-> v]
Thrown == [threw |-> TRUE, value |-> Undefined]

\* the pack built from a World Book
WorldBookPack(input, sourceName) ==
    [t |-> "object",
     packName |-> Str(sourceName),
     packAuthor |-> JSNull,
     coverUrl |-> JSNull,
     version |-> Num(1),
     packExtras |-> Arr(<<>>),
     lumiaItems |-> Arr(processWorldBook(input).lumiaItems),
     loomItems |-> Arr(processWorldBook(input).loomItems)]

\* the pack built from the old internal format
LegacyPack(input, sourceName) ==
    [t |-> "object",
     packName |-> Or(Or(Get(input, "name"), Get(input, "packName")),
                     Str(sourceName)),
     packAuthor |-> Or(Or(Get(input, "author"), Get(input, "packAuthor")),
                       JSNull),
     coverUrl |-> Or(Get(input, "coverUrl"), JSNull),
     version |-> Num(1),
     packExtras |-> Or(Get(input, "packExtras"), Arr(<<>>)),
     lumiaItems |-> Arr(MapItems(Get(input, "items").a, "lumia")),
     loomItems |-> Arr(MapItems(Get(input, "items").a, "loom"))]

\* a convertPack that rebuilds a new-format payload instead of returning it
convertPack_Rebuilding(input, sourceName) ==
    IF Truthy(Get(input, "lumiaItems")) \/ Truthy(Get(input, "loomItems"))
    THEN Returned([t |-> "object",
                   lumiaItems |-> Or(Get(input, "lumiaItems"), Arr(<<>>)),
                   loomItems |-> Or(Get(input, "loomItems"), Arr(<<>>))])
    ELSE IF Truthy(Get(input, "entries")) \/ input.t = "array"
    THEN Returned(WorldBookPack(input, sourceName))
    ELSE IF Truthy(Get(input, "items")) /\ Get(input, "items").t = "array"
    THEN Returned(LegacyPack(input, sourceName))
    ELSE Thrown

\* a convertPack that looks for items before entries
convertPack_ItemsFirst(input, sourceName) ==
    IF Truthy(Get(input, "lumiaItems")) \/ Truthy(Get(input, "loomItems"))
    THEN Returned(input)
    ELSE IF Truthy(Get(input, "items")) /\ Get(input, "items").t = "array"
    THEN Returned(LegacyPack(input, sourceName))
    ELSE IF Truthy(Get(input, "entries")) \/ input.t = "array"
    THEN Returned(WorldBookPack(input, sourceName))
    ELSE Thrown

convertPack(input, sourceName) ==
    IF Truthy(Get(input, "lumiaItems")) \/ Truthy(Get(input, "loomItems"))
    THEN Returned(input)
    ELSE IF Truthy(Get(input, "entries")) \/ input.t = "array"
    THEN Returned(WorldBookPack(input, sourceName))
    ELSE IF Truthy(Get(input, "items")) /\ Get(input, "items").t = "array"
    THEN Returned(LegacyPack(input, sourceName))
    ELSE Thrown

-----------------------------------------------------------------------------
(* main: the steps of one command-line run *)

\* what the file system holds at inputPath
Missing == [kind |-> "missing"]
Unreadable == [kind |-> "unreadable"]
NotJson == [kind |-> "text"]
JsonFile(data) == [kind |-> "json", data |-> data]

\* JSON.stringify(convertedPack, null, 2) as written to outputPath
Written(pack) == [t |-> "file", json |-> pack]

\* path.basename(inputPath, path.extname(inputPath))
SourceName(args) == <<args[1][1]>>

\* /\.json$/i matches the path
EndsInJson(p) == p # <<>> /\ p[Len(p)] \in {".json", ".JSON", ".Json"}

\* a default output path that appends the suffix whatever the input's ending
DefaultOutput_Appending(p) == p \o <<".converted.json">>

\* inputPath.replace(/\.json$/i, '.converted.json')
DefaultOutput(p) ==
    IF EndsInJson(p) THEN SubSeq(p, 1, Len(p) - 1) \o <<".converted.json">>
    ELSE p

\* const inputPath, const outputPath (the paths are taken as resolved)
ResolvedInput(args) == args[1]
ResolvedOutput(args) ==
    IF Len(args) >= 2 /\ args[2] # <<>> THEN args[2] ELSE DefaultOutput(args[1])

\* process.exit(1)
Exit1 ==
    /\ pc' = "exited"
    /\ exitCode' = 1
    /\ UNCHANGED <<argv, inputFile, inputData, convertedPack, outputFile>>

\* no argument: the usage text and exit code 1
Usage ==
    /\ pc = "start"
    /\ argv = <<>>
    /\ Exit1
    /\ UNCHANGED <<metaVars, bookVars, settingsVars, uiVars>>

\* fs.existsSync(inputPath) is false
InputNotFound ==
    /\ pc = "start"
    /\ argv # <<>>
    /\ inputFile.kind = "missing"
    /\ Exit1
    /\ UNCHANGED <<metaVars, bookVars, settingsVars, uiVars>>

\* readFileSync or JSON.parse throws: the catch block exits with code 1
ReadFails ==
    /\ pc = "start"
    /\ argv # <<>>
    /\ inputFile.kind \in {"unreadable", "text"}
    /\ Exit1
    /\ UNCHANGED <<metaVars, bookVars, settingsVars, uiVars>>

\* JSON.parse(fs.readFileSync(inputPath))
ReadInput ==
    /\ pc = "start"
    /\ argv # <<>>
    /\ inputFile.kind = "json"
    /\ inputData' = inputFile.data
    /\ pc' = "convert"
    /\ UNCHANGED <<argv, inputFile, convertedPack, outputFile, exitCode,
                   metaVars, bookVars, settingsVars, uiVars>>

\* a failing conversion that leaves an empty output file behind
ConvertThrows_PartialOutput ==
    /\ pc = "convert"
    /\ convertPack(inputData, SourceName(argv)).threw
    /\ pc' = "exited"
    /\ exitCode' = 1
    /\ outputFile' = Written(Undefined)
    /\ UNCHANGED <<argv, inputFile, inputData, convertedPack, metaVars, bookVars, settingsVars, uiVars>>

\* convertPack throws 'Unknown input format': the catch block exits
ConvertThrows ==
    /\ pc = "convert"
    /\ convertPack(inputData, SourceName(argv)).threw
    /\ Exit1
    /\ UNCHANGED <<metaVars, bookVars, settingsVars, uiVars>>

ConvertReturns ==
    /\ pc = "convert"
    /\ ~convertPack(inputData, SourceName(argv)).threw
    /\ convertedPack' = convertPack(inputData, SourceName(argv)).value
    /\ pc' = "write"
    /\ UNCHANGED <<argv, inputFile, inputData, outputFile, exitCode,
                   metaVars, bookVars, settingsVars, uiVars>>

\* fs.writeFileSync(outputPath, ...) succeeds; when the output path is the
\* input path, the file read is the file written
WriteOutput ==
    /\ pc = "write"
    /\ outputFile' = Written(convertedPack)
    /\ inputFile' = IF ResolvedOutput(argv) = ResolvedInput(argv)
                    THEN JsonFile(convertedPack) ELSE inputFile
    /\ pc' = "summary"
    /\ UNCHANGED <<argv, inputData, convertedPack, exitCode,
                   metaVars, bookVars, settingsVars, uiVars>>

\* fs.writeFileSync throws (the output path cannot be opened)
WriteFails ==
    /\ pc = "write"
    /\ Exit1
    /\ UNCHANGED <<metaVars, bookVars, settingsVars, uiVars>>

\* the summary is printed and main returns: exit code 0
Summary ==
    /\ pc = "summary"
    /\ pc' = "exited"
    /\ exitCode' = 0
    /\ UNCHANGED <<argv, inputFile, inputData, convertedPack, outputFile,
                   metaVars, bookVars, settingsVars, uiVars>>

-----------------------------------------------------------------------------
(* Inputs *)

SeqsUpTo(A, n) == UNION {[1..k -> A] : k \in 0..n}

MaxSegments == 4

\* A definition text is a run of pieces: a word, a blank, a line break, a
\* stray "]", a complete image tag, a complete author tag (one with a blank
\* value, one repeated with another value).
MetaPieces ==
    {<<"x">>, <<SP>>, <<NL>>, <<RB>>,
     <<IMG, "u", RB>>, <<IMG, SP, "v", RB>>,
     <<AUTH, "a", RB>>, <<AUTH, SP, RB>>}

RECURSIVE Flatten(_)
Flatten(ss) == IF ss = <<>> THEN <<>> ELSE Head(ss) \o Flatten(Tail(ss))

MetaTexts == {Flatten(ps) : ps \in SeqsUpTo(MetaPieces, MaxSegments)}

MaxEntries == 3

Entry(comment, text, outletName) ==
    [t |-> "object", comment |-> comment, content |-> text, outletName |-> outletName]

\* The knowledge entries a book is drawn from: typed fragments for two names
\* (by keyword, by outlet identifier, by prefix, by image tag), entries with
\* a name and no type, entries without a name, entries without usable
\* content, a Loom entry, and a comment that starts as a Loom entry and does
\* not end as one.
BookEntries ==
    {Entry(Str(<<"Lumia", SP, "Definition", SP, LP, "Aria", RP>>),
           Str(<<"x", SP, IMG, "u", RB, AUTH, "a", RB>>), Undefined),
     Entry(Str(<<"Definition", LP, SP, "Aria", SP, RP>>),
           Str(<<SP, "y", SP>>), Undefined),
     Entry(Str(<<"Behavior", SP, LP, "Aria", RP>>), Str(<<"b", SP>>), Undefined),
     Entry(Str(<<LP, "Aria", RP>>), Str(<<"c">>), Str(<<"Lumia_Behavior">>)),
     Entry(Str(<<"Personality", SP, LP, "Aria", RP>>),
           Str(<<SETVAR, "brave", CLOSE, SP, "p">>), Undefined),
     Entry(Str(<<"Personality", SP, LP, "Aria", RP>>),
           Str(<<SETGLOBALVAR, "q", CLOSE>>), Undefined),
     Entry(Str(<<"Lumia", SP, LP, "Bob", RP>>), Str(<<"z">>), Undefined),
     Entry(Str(<<LP, "Bob", RP>>), Str(<<IMG, "u", RB>>), Undefined),
     Entry(Str(<<LP, "Aria", RP>>), Str(<<"x">>), Undefined),
     Entry(Str(<<"Lumia", SP, "Definition", SP, "Aria">>), Str(<<"x">>), Undefined),
     Entry(Str(<<"Behavior", SP, LP, RP>>), Str(<<"x">>), Str(<<"Lumia_Behavior">>)),
     Entry(Undefined, Str(<<"x">>), Str(<<"Lumia_Description">>)),
     Entry(Str(<<"Definition", SP, LP, "Aria", RP>>), Undefined, Undefined),
     Entry(Str(<<"Behavior", SP, LP, "Bob", RP>>), Num(7), Undefined),
     Entry(Str(<<"Personality", SP, LP, "Bob", RP>>), Str(<<>>), Undefined),
     Entry(Str(<<RETROFITS, LP, SP, "Aria", SP, RP, SP>>),
           Str(<<SP, "r", SP>>), Undefined),
     Entry(Str(<<LOOM_UTILITIES, SP, LP, "Bob", RP, SP, "Behavior">>),
           Str(<<"t">>), Undefined)}

MaxCommentLen == 4

\* the tokens of a comment: parentheses, a blank, the prefix "Lumia", the
\* three keywords and a name
CommentAlphabet ==
    {LP, RP, SP, "Lumia", "Definition", "Behavior", "Personality", "Aria"}

\* the outlet identifiers, and an entry without one
OutletNames ==
    {Undefined, Str(<<"Lumia_Description">>), Str(<<"Lumia_Behavior">>),
     Str(<<"Lumia_Personality">>)}

\* single entries: every comment, every outlet, a content with and without
\* the image tag
SingleEntries(len) ==
    {Entry(Str(c), Str(text), o) :
        c \in SeqsUpTo(CommentAlphabet, len),
        text \in {<<"x">>, <<"x", IMG, "u", RB>>},
        o \in OutletNames}

NoMeta == [image |-> JSNull, author |-> JSNull, content |-> <<>>]

IdleMeta == content = <<>> /\ meta = NoMeta /\ metaExt = NoMeta
IdleBook == /\ entries = <<>> /\ idx = 0
            /\ lumiaMap = <<>> /\ loomItems = <<>> /\ extMap = <<>>
IdleMain == /\ pc = "idle" /\ argv = <<>> /\ inputFile = Undefined
            /\ inputData = Undefined /\ convertedPack = Undefined
            /\ outputFile = Undefined /\ exitCode = -1
IdleSettings == /\ settings = Undefined /\ extension_settings = Undefined
                /\ shown = Undefined /\ migrations = 0 /\ loaded = Undefined
IdleFetch == fetches = <<>>
IdleRandom == currentRandomLumia = JSNull
IdleMount == mountedRoots = {} /\ roots = <<>> /\ dom = {}
IdleBridge == /\ reactUILoaded = FALSE /\ cleanupFn = JSNull
              /\ viewportCleanupFn = JSNull /\ bundleLoaded = FALSE
              /\ listeners = 0 /\ initCalls = <<>> /\ mountRuns = 0
IdleUI == IdleFetch /\ IdleRandom /\ IdleMount /\ IdleBridge

-----------------------------------------------------------------------------
(* extractMetadata applied to a text *)

InitMeta ==
    /\ content \in MetaTexts
    /\ meta = NoMeta /\ metaExt = NoMeta
    /\ IdleBook
    /\ IdleSettings /\ IdleUI
    /\ pc = "extract" /\ argv = <<>> /\ inputFile = Undefined
    /\ inputData = Undefined /\ convertedPack = Undefined
    /\ outputFile = Undefined /\ exitCode = -1

CallExtractMetadata ==
    /\ pc = "extract"
    /\ meta' = extractMetadata(content)
    /\ metaExt' = index_extractMetadata(content)
    /\ pc' = "extracted"
    /\ UNCHANGED <<content, bookVars, argv, inputFile, inputData,
                   convertedPack, outputFile, exitCode, settingsVars, uiVars>>

NextMeta == CallExtractMetadata

SpecMeta == InitMeta /\ [][NextMeta]_vars

-----------------------------------------------------------------------------
(* processWorldBook run over an entries array, one entry per step; the     *)
(* script and the extension read the same array                            *)

InitBook ==
    /\ entries \in SeqsUpTo(BookEntries, MaxEntries)
    /\ idx = 0
    /\ lumiaMap = <<>> /\ loomItems = <<>> /\ extMap = <<>>
    /\ IdleMeta
    /\ IdleMain
    /\ IdleSettings /\ IdleUI

NextEntry ==
    /\ pc = "idle"
    /\ idx < Len(entries)
    /\ LET st == ForEntry([lumiaMap |-> lumiaMap, loomItems |-> loomItems],
                          entries[idx + 1])
       IN  /\ lumiaMap' = st.lumiaMap
           /\ loomItems' = st.loomItems
    /\ extMap' = index_ForEntry(extMap, entries[idx + 1])
    /\ idx' = idx + 1
    /\ UNCHANGED <<entries, metaVars, mainVars, settingsVars, uiVars>>

NextBook == NextEntry

SpecBook == InitBook /\ [][NextBook]_vars

\* processWorldBook run over a book of one entry
InitEntry ==
    /\ entries \in {<<e>> : e \in SingleEntries(MaxCommentLen)}
    /\ idx = 0
    /\ lumiaMap = <<>> /\ loomItems = <<>> /\ extMap = <<>>
    /\ IdleMeta
    /\ IdleMain
    /\ IdleSettings /\ IdleUI

SpecEntry == InitEntry /\ [][NextBook]_vars

-----------------------------------------------------------------------------
(* What the claims say about an entry, stated on the entry itself *)

\* the entry's content is a text (possibly empty)
HasText(e) == e.content.t = "string"

\* the comment as the classifier reads it
CommentText(e) == IF e.comment.t = "string" THEN Trim(e.comment.s) ELSE <<>>

\* the comment holds "(" <one or more tokens> ")" on one line
HasParenName(c) ==
    \E i \in 1..Len(c), j \in 1..Len(c) :
        /\ c[i] = LP /\ c[j] = RP /\ j > i + 1
        /\ \A m \in (i + 1)..(j - 1) : c[m] # NL

\* the comment is '<Category> (<Name>)': a Loom category, optional blanks,
\* "(", a non-empty name, and ")" as its last token
IsLoomComment(c) ==
    /\ Len(c) >= 4
    /\ <<c[1]>> \in LoomCategories
    /\ c[Len(c)] = RP
    /\ \E p \in 2..(Len(c) - 2) :
         /\ c[p] = LP
         /\ \A m \in 2..(p - 1) : c[m] = SP
         /\ \A m \in (p + 1)..(Len(c) - 1) : c[m] # NL

\* the name of a Loom comment: what stands between the first "(" and the
\* closing ")"
LoomNameOf(c) ==
    LET p == Min({k \in 1..Len(c) : c[k] = LP})
    IN  Trim(SubSeq(c, p + 1, Len(c) - 1))

\* the comment begins with a Loom category directly followed by its "("
StartsAsLoom(c) ==
    /\ Len(c) >= 2
    /\ <<c[1]>> \in LoomCategories
    /\ \E p \in 2..Len(c) : c[p] = LP /\ \A m \in 2..(p - 1) : IsSpace(c[m])

\* the first parenthesized name of a comment
FirstNameOf(c) == Trim(MatchName(c).group)

Seen == SubSeq(entries, 1, idx)
Finished == pc = "idle" /\ idx = Len(entries)
ScriptOutput == [lumiaItems |-> lumiaMap, loomItems |-> loomItems]

-----------------------------------------------------------------------------
(* C4 *)

\* content absent or not text, or a comment with no parenthesized name that
\* is no Loom comment
Skipped(e) ==
    \/ ~HasText(e)
    \/ ~HasParenName(CommentText(e)) /\ ~IsLoomComment(CommentText(e))

NotSkipped(e) == ~Skipped(e)

-----------------------------------------------------------------------------
(* C6 *)

\* the entry reaches the Lumia branch of the script: usable content, a
\* parenthesized name, no Loom category in front of its first "("
IsLumiaEntry(e) ==
    /\ HasText(e) /\ e.content.s # <<>>
    /\ HasParenName(CommentText(e))
    /\ ~StartsAsLoom(CommentText(e))

NameOfEntry(e) == FirstNameOf(CommentText(e))
TypeOfEntry(e) == EntryType(e, CommentText(e), MatchCategory(CommentText(e)))

\* a named entry for which the script determines no type
Untyped(e) == IsLumiaEntry(e) /\ TypeOfEntry(e) = "none"
NotUntyped(e) == ~Untyped(e)

\* C6: an entry with a parenthesized name and no determinable type is
\* ignored, so the script's output is the output for the sequence without
\* such entries.
C6_UntypedEntryIgnored ==
    Finished =>
        ScriptOutput = processWorldBook(Arr(SelectSeq(entries, NotUntyped)))

-----------------------------------------------------------------------------
(* C7 *)

NamesOf(map) == [k \in 1..Len(map) |-> map[k].lumiaName.s]

\* the names of the Lumia entries of es, each once, in first-seen order
RECURSIVE FirstSeen(_)
FirstSeen(es) ==
    IF es = <<>> THEN <<>>
    ELSE LET before == FirstSeen(SubSeq(es, 1, Len(es) - 1))
             e == es[Len(es)]
         IN  IF IsLumiaEntry(e) /\ NameOfEntry(e) \notin Range(before)
             THEN Append(before, NameOfEntry(e))
             ELSE before

\* the typed entries of the book that carry name n
TypedFor(n) ==
    {k \in 1..Len(entries) :
        /\ IsLumiaEntry(entries[k])
        /\ NameOfEntry(entries[k]) = n
        /\ TypeOfEntry(entries[k]) # "none"}

OfType(n, type) == {k \in TypedFor(n) : TypeOfEntry(entries[k]) = type}

\* name n has exactly one definition, one behavior and one personality entry
OneOfEach(n) ==
    /\ Cardinality(OfType(n, "definition")) = 1
    /\ Cardinality(OfType(n, "behavior")) = 1
    /\ Cardinality(OfType(n, "personality")) = 1

\* the item holds the fields of the three entries
HoldsAll(item, d, b, p) ==
    LET m == extractMetadata(d.content.s)
        pm == MatchMarker(p.content.s, SETGLOBALVAR)
    IN  /\ item.lumiaDefinition = Str(m.content)
        /\ item.avatarUrl = (IF Truthy(m.image) THEN m.image ELSE JSNull)
        /\ item.authorName = (IF Truthy(m.author) THEN m.author ELSE JSNull)
        /\ item.lumiaBehavior = b.content
        /\ item.lumiaPersonality =
              (IF pm.found THEN Str(Trim(pm.group)) ELSE p.content)

\* C7: the items of the script's map carry pairwise different names, in the
\* order in which the names were first seen; and when a name has one
\* definition, one behavior and one personality entry, in whatever order,
\* its one item holds the fields of all three.
C7_OneItemPerNameInFirstSeenOrder ==
    /\ NamesOf(lumiaMap) = FirstSeen(Seen)
    /\ \A i \in 1..Len(lumiaMap), j \in 1..Len(lumiaMap) :
          lumiaMap[i].lumiaName = lumiaMap[j].lumiaName => i = j
    /\ Finished =>
          \A k \in 1..Len(lumiaMap) :
              LET n == lumiaMap[k].lumiaName.s
              IN  OneOfEach(n) =>
                      HoldsAll(lumiaMap[k],
                               entries[CHOOSE d \in OfType(n, "definition") : TRUE],
                               entries[CHOOSE b \in OfType(n, "behavior") : TRUE],
                               entries[CHOOSE q \in OfType(n, "personality") : TRUE])

\* a finished run in which the personality entry of a name, carrying a
\* behavior marker, came before its behavior entry and its definition
C7_Witness ==
    /\ Finished
    /\ \E k \in 1..Len(lumiaMap) :
          LET n == lumiaMap[k].lumiaName.s
          IN  /\ OneOfEach(n)
              /\ \E q \in OfType(n, "personality"), b \in OfType(n, "behavior"),
                    d \in OfType(n, "definition") :
                     /\ q < b /\ b < d
                     /\ MatchMarker(entries[q].content.s, SETVAR).found

-----------------------------------------------------------------------------
(* C9 *)

\* a Loom entry: usable content and a comment '<Category> (<Name>)'
IsLoomEntry(e) ==
    HasText(e) /\ e.content.s # <<>> /\ IsLoomComment(CommentText(e))

NotLoomEntry(e) == ~IsLoomEntry(e)

\* the Loom item the claim names for a Loom entry
LoomItemOf(e) ==
    [t |-> "object",
     loomName |-> Str(LoomNameOf(CommentText(e))),
     loomContent |-> Str(Trim(e.content.s)),
     loomCategory |-> Str(<<CommentText(e)[1]>>),
     authorName |-> JSNull,
     version |-> Num(1)]

RECURSIVE LoomItemsOf(_)
LoomItemsOf(es) ==
    IF es = <<>> THEN <<>>
    ELSE IF IsLoomEntry(Head(es))
    THEN <<LoomItemOf(Head(es))>> \o LoomItemsOf(Tail(es))
    ELSE LoomItemsOf(Tail(es))

\* every Loom entry seen has appended its one Loom item, nothing else has,
\* and the Lumia items are those of the book without its Loom entries
LoomEntriesOnlyAppend ==
    /\ loomItems = LoomItemsOf(Seen)
    /\ lumiaMap = processWorldBook(Arr(SelectSeq(Seen, NotLoomEntry))).lumiaItems

\* the entries of es with usable content and a parenthesized name that are
\* no Loom entries
GoesOn(e) ==
    /\ HasText(e) /\ e.content.s # <<>>
    /\ ~IsLoomComment(CommentText(e))
    /\ HasParenName(CommentText(e))

\* C9 as stated: a Loom entry appends exactly its Loom item and touches no
\* Lumia item, and every other entry goes on to Lumia name extraction, so
\* that its parenthesized name is in the map.
C9_LoomOrNameExtraction ==
    /\ LoomEntriesOnlyAppend
    /\ \A k \in 1..idx :
          GoesOn(entries[k]) => HasName(lumiaMap, NameOfEntry(entries[k]))

\* C9 amended: a Loom entry appends exactly its Loom item and touches no
\* Lumia item; an entry whose comment starts with a Loom category and its
\* "(" without being '<Category> (<Name>)' is dropped whole; every other
\* entry goes on to Lumia name extraction.
C9_LoomOrDroppedOrNameExtraction ==
    /\ LoomEntriesOnlyAppend
    /\ \A k \in 1..idx :
          GoesOn(entries[k]) =>
              IF StartsAsLoom(CommentText(entries[k]))
              THEN /\ lumiaMap =
                        processWorldBook(Arr(SubSeq(entries, 1, k - 1)
                                             \o SubSeq(entries, k + 1, idx))).lumiaItems
                   /\ loomItems =
                        processWorldBook(Arr(SubSeq(entries, 1, k - 1)
                                             \o SubSeq(entries, k + 1, idx))).loomItems
              ELSE HasName(lumiaMap, NameOfEntry(entries[k]))

\* a run that has seen a Loom entry, an entry that starts as one and is
\* dropped, and a Lumia entry
C9_Witness ==
    /\ Finished
    /\ loomItems # <<>> /\ lumiaMap # <<>>
    /\ \E k \in 1..idx : IsLoomEntry(entries[k])
    /\ \E k \in 1..idx :
          GoesOn(entries[k]) /\ StartsAsLoom(CommentText(entries[k]))

-----------------------------------------------------------------------------
(* C10 *)

\* the places <<k, j>> of the tags of one kind in a text: the opening at k,
\* a value of one or more tokens, none of them a "]", a tag opening or a
\* line break, and the closing "]" at j
TagsIn(s, open) ==
    {kj \in (1..Len(s)) \X (1..Len(s)) :
        /\ s[kj[1]] = open
        /\ s[kj[2]] = RB
        /\ kj[2] > kj[1] + 1
        /\ \A m \in (kj[1] + 1)..(kj[2] - 1) : s[m] \notin {RB, IMG, AUTH, NL}}

FirstTag(s, open) == CHOOSE kj \in TagsIn(s, open) :
                        \A other \in TagsIn(s, open) : kj[1] <= other[1]

\* the value returned for one kind: null without a tag, else the trimmed
\* value of the first tag
ValueOfFirst(s, open) ==
    IF TagsIn(s, open) = {} THEN JSNull
    ELSE Str(Trim(SubSeq(s, FirstTag(s, open)[1] + 1, FirstTag(s, open)[2] - 1)))

\* the tags of one kind as texts, first to last
TagTexts(s, open) ==
    LET starts == {kj[1] : kj \in TagsIn(s, open)}
        endOf(k) == CHOOSE j \in 1..Len(s) : <<k, j>> \in TagsIn(s, open)
        RECURSIVE From(_)
        From(k) == IF k > Len(s) THEN <<>>
                   ELSE IF k \in starts
                   THEN <<SubSeq(s, k, endOf(k))>> \o From(k + 1)
                   ELSE From(k + 1)
    IN  From(1)

\* the tokens of a text outside its tags
OutsideTags(s) ==
    LET inTag(m) == \E open \in {IMG, AUTH} : \E kj \in TagsIn(s, open) :
                        kj[1] <= m /\ m <= kj[2]
        RECURSIVE From(_)
        From(k) == IF k > Len(s) THEN <<>>
                   ELSE IF inTag(k) THEN From(k + 1)
                   ELSE <<s[k]>> \o From(k + 1)
    IN  From(1)

\* what the claim says of a result r for the text c
FirstOfEachKindOnly(c, r) ==
    /\ r.image = ValueOfFirst(c, IMG)
    /\ r.author = ValueOfFirst(c, AUTH)
    /\ \A open \in {IMG, AUTH} :
          TagTexts(r.content, open) =
             (IF TagsIn(c, open) = {} THEN <<>> ELSE Tail(TagTexts(c, open)))
    /\ Trim(OutsideTags(r.content)) = Trim(OutsideTags(c))

\* C10: for a text whose tags are complete, both copies of extractMetadata
\* return the value of the first tag of each kind, or null when the kind is
\* absent, and a cleaned text in which exactly that first tag of each kind
\* is missing: every further tag of the kind is still there, in order, and
\* the text outside the tags is kept.
C10_FirstOccurrenceOnly ==
    pc = "extracted" =>
        /\ FirstOfEachKindOnly(content, meta)
        /\ FirstOfEachKindOnly(content, metaExt)

\* a text with two image tags and two author tags has been cleaned, and one
\* tag of each kind is left
C10_Witness ==
    /\ pc = "extracted"
    /\ Cardinality(TagsIn(content, IMG)) >= 2
    /\ Cardinality(TagsIn(content, AUTH)) >= 2
    /\ Len(TagTexts(meta.content, IMG)) = Cardinality(TagsIn(content, IMG)) - 1
    /\ Len(TagTexts(meta.content, AUTH)) = Cardinality(TagsIn(content, AUTH)) - 1
    /\ Truthy(meta.image)

-----------------------------------------------------------------------------
(* C5 *)

\* the type an item shows after the one entry of a book has been applied to
\* it: the field that was filled
ShownType(def, beh, pers) ==
    IF def # JSNull THEN "definition"
    ELSE IF beh # JSNull THEN "behavior"
    ELSE IF pers # JSNull THEN "personality"
    ELSE "none"

ScriptType ==
    ShownType(lumiaMap[1].lumiaDefinition, lumiaMap[1].lumiaBehavior,
              lumiaMap[1].lumiaPersonality)

ExtensionType ==
    ShownType(extMap[1].lumiaDef, extMap[1].lumia_behavior,
              extMap[1].lumia_personality)

HasKeyword(e, word) ==
    \E k \in 1..Len(CommentText(e)) : LowerTok(CommentText(e)[k]) = word

\* the comment begins with "Lumia", optional white space and "("
LeadingLumia(e) ==
    LET c == CommentText(e)
    IN  /\ Len(c) >= 2
        /\ LowerTok(c[1]) = "lumia"
        /\ \E p \in 2..Len(c) : c[p] = LP /\ \A m \in 2..(p - 1) : IsSpace(c[m])

HasImageTag(e) == \E k \in 1..Len(e.content.s) : e.content.s[k] = IMG

\* rules (c) and (d) of the script; the extension has neither
ByPrefixOrImage(e) ==
    IF LeadingLumia(e) \/ HasImageTag(e) THEN "definition" ELSE "none"

\* the order C5 states: the outlet identifier first, whatever the comment
\* says; then the keywords; then the prefix; then the image tag
OutletFirstType(e) ==
    IF e.outletName = Str(<<"Lumia_Description">>) THEN "definition"
    ELSE IF e.outletName = Str(<<"Lumia_Behavior">>) THEN "behavior"
    ELSE IF e.outletName = Str(<<"Lumia_Personality">>) THEN "personality"
    ELSE IF HasKeyword(e, "definition") THEN "definition"
    ELSE IF HasKeyword(e, "behavior") THEN "behavior"
    ELSE IF HasKeyword(e, "personality") THEN "personality"
    ELSE ByPrefixOrImage(e)

\* the order of the code: per type, its outlet identifier or its keyword
TypeFirstType(e, last) ==
    IF e.outletName = Str(<<"Lumia_Description">>) \/ HasKeyword(e, "definition")
    THEN "definition"
    ELSE IF e.outletName = Str(<<"Lumia_Behavior">>) \/ HasKeyword(e, "behavior")
    THEN "behavior"
    ELSE IF e.outletName = Str(<<"Lumia_Personality">>) \/ HasKeyword(e, "personality")
    THEN "personality"
    ELSE last

\* the extension's Lumia branch takes every entry with usable content and a
\* parenthesized name
IsNamedEntry(e) ==
    HasText(e) /\ e.content.s # <<>> /\ HasParenName(CommentText(e))

\* C5 as stated: an outlet identifier decides the type whenever one is
\* present; only without one do the keywords decide; then the prefix
\* "Lumia"; then the image tag.
C5_OutletIdentifierFirst ==
    (Finished /\ Len(entries) = 1 /\ IsLumiaEntry(entries[1])) =>
        ScriptType = OutletFirstType(entries[1])

\* C5 amended: the type is definition when the outlet identifier is
\* Lumia_Description or the comment contains "definition"; else behavior
\* when the identifier is Lumia_Behavior or the comment contains "behavior";
\* else personality when the identifier is Lumia_Personality or the comment
\* contains "personality"; else, in the script only, definition for a
\* leading prefix "Lumia" or for an image tag in the content.  The
\* extension's copy stops after the first three rules.
C5_TypeByTypeOutletOrKeyword ==
    (Finished /\ Len(entries) = 1) =>
        /\ IsLumiaEntry(entries[1]) =>
              ScriptType = TypeFirstType(entries[1], ByPrefixOrImage(entries[1]))
        /\ IsNamedEntry(entries[1]) =>
              ExtensionType = TypeFirstType(entries[1], "none")

\* the one entry carries the outlet identifier of a behavior and the
\* keyword "definition", and the script has typed it definition
C5_Witness ==
    /\ Finished /\ Len(entries) = 1 /\ IsLumiaEntry(entries[1])
    /\ entries[1].outletName = Str(<<"Lumia_Behavior">>)
    /\ HasKeyword(entries[1], "definition")
    /\ ScriptType = "definition"

-----------------------------------------------------------------------------
(* One command-line run: node convertPacks.js <input> [output] *)

MaxItems == 2
MaxPackEntries == 2

\* an object with the property f set to v, or left as it is for no value
WithField(o, f, v) == IF v = Undefined THEN o ELSE o @@ (f :> v)

EmptyObject == [t |-> "object"]

\* items of the old internal format, one that has the fields of both kinds
\* and one that is neither kind
OldAria ==
    [t |-> "object", lumiaDefName |-> Str(<<"Aria">>), lumiaDef |-> Str(<<"d">>),
     lumia_behavior |-> Str(<<"b">>)]

OldItems ==
    {OldAria,
     [t |-> "object", lumiaName |-> Str(<<"Aria">>),
      lumiaDefinition |-> Str(<<"e">>), genderIdentity |-> Num(2)],
     [t |-> "object", lumiaDefName |-> Str(<<"Bob">>), lumiaName |-> Str(<<"Rob">>)],
     [t |-> "object", loomName |-> Str(<<"Gothic">>), loomContent |-> Str(<<"dark">>),
      loomCategory |-> Str(<<NARRATIVE_STYLE>>)],
     [t |-> "object", lumiaName |-> Str(<<"Cleo">>), lumiaDef |-> Str(<<"d">>),
      lumiaDefinition |-> Str(<<"e">>), loomName |-> Str(<<"Gothic">>),
      loomCategory |-> Str(<<NARRATIVE_STYLE>>)],
     [t |-> "object", note |-> Str(<<"x">>)]}

\* World Book entries of a payload
AriaEntry == Entry(Str(<<"Lumia", SP, LP, "Aria", RP>>), Str(<<"d">>), Undefined)

PackEntries ==
    {AriaEntry,
     Entry(Str(<<"Behavior", SP, LP, "Aria", RP>>), Str(<<"b">>), Undefined),
     Entry(Str(<<NARRATIVE_STYLE, SP, LP, "Gothic", RP>>), Str(<<"dark">>), Undefined)}

\* items of the current format
NewLumiaItem == [NewLumia(<<"Aria">>) EXCEPT !.lumiaDefinition = Str(<<"d">>)]
NewLoomItem ==
    [t |-> "object", loomName |-> Str(<<"Gothic">>), loomContent |-> Str(<<"dark">>),
     loomCategory |-> Str(<<NARRATIVE_STYLE>>), authorName |-> JSNull,
     version |-> Num(1)]

\* payloads that expose lumiaItems or loomItems, alone or next to the
\* properties of the other formats
NewFormat ==
    {WithField(WithField(WithField(WithField(EmptyObject,
        "lumiaItems", l), "loomItems", m), "entries", e), "items", i) :
        l \in {Undefined, Arr(<<>>), Arr(<<NewLumiaItem>>)},
        m \in {Undefined, Arr(<<NewLoomItem>>)},
        e \in {Undefined, Mapping(<<AriaEntry>>)},
        i \in {Undefined, Arr(<<OldAria>>)}}
    \ {WithField(WithField(EmptyObject, "entries", e), "items", i) :
        e \in {Undefined, Mapping(<<AriaEntry>>)},
        i \in {Undefined, Arr(<<OldAria>>)}}

\* World Books: an entries mapping (with or without items), or a bare array
WorldBooks ==
    {WithField(WithField(EmptyObject, "entries", Mapping(es)), "items", i) :
        es \in SeqsUpTo(PackEntries, MaxPackEntries),
        i \in {Undefined, Arr(<<OldAria>>)}}
    \cup {Arr(es) : es \in SeqsUpTo(PackEntries, MaxPackEntries)}

\* the old internal format: an items array, with or without a name
OldFormat ==
    {WithField(WithField(EmptyObject, "items", Arr(is)), "name", n) :
        is \in SeqsUpTo(OldItems, MaxItems),
        n \in {Undefined, Str(<<"Old">>)}}

\* payloads of no known format
UnknownFormat ==
    {EmptyObject, [t |-> "object", name |-> Str(<<"Old">>)],
     [t |-> "object", items |-> Str(<<"x">>)]}

Payloads == NewFormat \cup WorldBooks \cup OldFormat \cup UnknownFormat

InputPath == <<"pack", ".json">>
OutputPath == <<"out", ".json">>

\* input paths with an upper-case extension, with another one, with none
OtherInputPaths == {<<"pack", ".JSON">>, <<"pack", ".txt">>, <<"pack">>}

Init ==
    /\ IdleMeta /\ IdleBook /\ IdleSettings /\ IdleUI
    /\ pc = "start"
    /\ argv \in {<<>>, <<InputPath>>, <<InputPath, OutputPath>>}
               \cup {<<p>> : p \in OtherInputPaths}
    /\ inputFile \in {Missing, Unreadable, NotJson} \cup {JsonFile(p) : p \in Payloads}
    /\ inputData = Undefined
    /\ convertedPack = Undefined
    /\ outputFile = Undefined
    /\ exitCode = -1

Next ==
    \/ Usage
    \/ InputNotFound
    \/ ReadFails
    \/ ReadInput
    \/ ConvertThrows
    \/ ConvertReturns
    \/ WriteOutput
    \/ WriteFails
    \/ Summary

Spec == Init /\ [][Next]_vars

-----------------------------------------------------------------------------
(* Properties of convertPack and of the command-line run *)

\* the payload has a top-level lumiaItems or loomItems
Exposes(p) ==
    p.t = "object" /\ ("lumiaItems" \in DOMAIN p \/ "loomItems" \in DOMAIN p)

HasEntries(p) == p.t = "object" /\ "entries" \in DOMAIN p
IsBareSequence(p) == p.t = "array"
HasItemsSequence(p) ==
    p.t = "object" /\ "items" \in DOMAIN p /\ p.items.t = "array"

\* the run has been through convertPack
Converted == pc \in {"write", "summary", "exited"} /\ inputData # Undefined

\* C1: a payload that exposes lumiaItems or loomItems comes back from
\* convertPack with the same fields and values, and converting the result
\* of any accepted conversion again (under any source name) gives that
\* result back.
C1_PassthroughIdempotent ==
    Converted =>
        /\ Exposes(inputData) => convertedPack = inputData
        /\ convertedPack # Undefined =>
              \A n \in {SourceName(argv), <<"other">>} :
                  convertPack(convertedPack, n) = Returned(convertedPack)

\* a payload whose only new-format property is an empty lumiaItems, next to
\* entries, has been passed through
C1_Witness ==
    /\ pc = "write"
    /\ Exposes(inputData)
    /\ "loomItems" \notin DOMAIN inputData
    /\ inputData.lumiaItems = Arr(<<>>)
    /\ HasEntries(inputData)
    /\ convertedPack = inputData

PassedThrough == convertedPack = inputData

Classified ==
    /\ convertedPack # Undefined
    /\ convertedPack # inputData
    /\ convertedPack.packName = Str(SourceName(argv))
    /\ convertedPack.lumiaItems = Arr(processWorldBook(inputData).lumiaItems)
    /\ convertedPack.loomItems = Arr(processWorldBook(inputData).loomItems)

FieldRenamed ==
    /\ convertedPack # Undefined
    /\ convertedPack # inputData
    /\ convertedPack.packName
          = (IF "name" \in DOMAIN inputData THEN inputData.name
             ELSE Str(SourceName(argv)))
    /\ convertedPack.lumiaItems = Arr(MapItems(inputData.items.a, "lumia"))
    /\ convertedPack.loomItems = Arr(MapItems(inputData.items.a, "loom"))

Failed ==
    /\ pc = "exited" /\ exitCode = 1
    /\ convertedPack = Undefined
    /\ outputFile = Undefined

\* C2: convertPack picks the shape in a fixed order: lumiaItems/loomItems
\* means passthrough whatever else is there; otherwise entries or a bare
\* sequence means classification, items or not; otherwise an items sequence
\* means field renaming; otherwise the conversion fails.
C2_ShapeOrder ==
    Converted =>
        IF Exposes(inputData) THEN PassedThrough
        ELSE IF HasEntries(inputData) \/ IsBareSequence(inputData) THEN Classified
        ELSE IF HasItemsSequence(inputData) THEN FieldRenamed
        ELSE Failed

\* a payload with entries and items has been classified, its items ignored
C2_Witness ==
    /\ Converted
    /\ ~Exposes(inputData)
    /\ HasEntries(inputData) /\ HasItemsSequence(inputData)
    /\ inputData.entries.values = <<>>
    /\ MapItems(inputData.items.a, "lumia") # <<>>
    /\ Classified
    /\ convertedPack.lumiaItems = Arr(<<>>)

\* the payload matches none of the three formats
Unrecognized(p) ==
    ~Exposes(p) /\ ~HasEntries(p) /\ ~IsBareSequence(p) /\ ~HasItemsSequence(p)

Built == Converted /\ convertedPack # Undefined /\ ~Exposes(inputData)

NoDuplicateNames(items) ==
    \A i, j \in 1..Len(items) :
        i # j => items[i].lumiaName # items[j].lumiaName

\* C8: a pack that convertPack builds, from a World Book or from an items
\* sequence, holds at most one Lumia item per lumiaName.
C8_AtMostOnePerName ==
    Built => NoDuplicateNames(convertedPack.lumiaItems.a)

-----------------------------------------------------------------------------
(* processWorldBook run over definition fragments of one name *)

MaxDefs == 3

\* contents of definition fragments: without a tag, with an image tag, with
\* an author tag, with both, with an image tag whose value is blank, and
\* with two image tags
DefTexts ==
    {<<"x">>,
     <<"x", SP, IMG, "u", RB>>,
     <<"y", IMG, "v", RB>>,
     <<AUTH, "a", RB, "x">>,
     <<"z", SP, AUTH, "b", RB>>,
     <<IMG, "u", RB, AUTH, "a", RB>>,
     <<"x", IMG, SP, RB>>,
     <<IMG, "v", RB, "x", IMG, "u", RB>>}

DefEntries ==
    {Entry(Str(<<"Definition", SP, LP, "Aria", RP>>), Str(text), Undefined) :
        text \in DefTexts}

InitDefs ==
    /\ entries \in SeqsUpTo(DefEntries, MaxDefs)
    /\ idx = 0
    /\ lumiaMap = <<>> /\ loomItems = <<>> /\ extMap = <<>>
    /\ IdleMeta
    /\ IdleMain
    /\ IdleSettings /\ IdleUI

SpecDefs == InitDefs /\ [][NextBook]_vars

\* the value of the last fragment of es whose first tag of the kind has a
\* value that is not blank; null when there is none
LastValue(es, open) ==
    LET ks == {k \in 1..Len(es) : Truthy(ValueOfFirst(es[k].content.s, open))}
    IN  IF ks = {} THEN JSNull ELSE ValueOfFirst(es[Max(ks)].content.s, open)

\* C11: after any sequence of definition fragments for one name, the
\* definition text is the cleaned text of the last fragment, the avatar is
\* the image of the last fragment that carried an image (a tag with a blank
\* value carries none) and the author is the author of the last fragment
\* that carried one; a later fragment without the tag clears neither.  The
\* same holds for the extension's copy.
C11_LastDefinitionWins ==
    idx >= 1 =>
        /\ Len(lumiaMap) = 1 /\ Len(extMap) = 1
        /\ lumiaMap[1].lumiaDefinition
              = Str(extractMetadata(entries[idx].content.s).content)
        /\ lumiaMap[1].avatarUrl = LastValue(Seen, IMG)
        /\ lumiaMap[1].authorName = LastValue(Seen, AUTH)
        /\ extMap[1].lumiaDef
              = Str(index_extractMetadata(entries[idx].content.s).content)
        /\ extMap[1].lumia_img = LastValue(Seen, IMG)
        /\ extMap[1].defAuthor = LastValue(Seen, AUTH)

\* three fragments: the first carries an image and an author, the later
\* two carry neither, and the item still has both
C11_Witness ==
    /\ idx = 3
    /\ Truthy(ValueOfFirst(entries[1].content.s, IMG))
    /\ Truthy(ValueOfFirst(entries[1].content.s, AUTH))
    /\ \A k \in 2..3 : ~Truthy(ValueOfFirst(entries[k].content.s, IMG))
    /\ \A k \in 2..3 : ~Truthy(ValueOfFirst(entries[k].content.s, AUTH))
    /\ lumiaMap[1].avatarUrl = Str(<<"u">>)
    /\ lumiaMap[1].authorName = Str(<<"a">>)
    /\ lumiaMap[1].lumiaDefinition = entries[3].content

-----------------------------------------------------------------------------
(* processWorldBook run over personality and behavior fragments of one name *)

MaxFrags == 3

\* a personality fragment whose behavior marker captures 'Be brave', with
\* no personality marker
BeBraveEntry ==
    Entry(Str(<<"Personality", SP, LP, "Aria", RP>>),
          Str(<<SETVAR, "Be", SP, "brave", CLOSE, NL, "rest", SP>>), Undefined)

\* personality fragments with the personality marker only, with both
\* markers, with none, with a behavior marker that captures blanks only,
\* and a behavior fragment
FragEntries ==
    {BeBraveEntry,
     Entry(Str(<<"Personality", SP, LP, "Aria", RP>>),
           Str(<<SETGLOBALVAR, SP, "kind", SP, CLOSE, "rest">>), Undefined),
     Entry(Str(<<"Personality", SP, LP, "Aria", RP>>),
           Str(<<SETVAR, "calm", CLOSE, SETGLOBALVAR, "shy", CLOSE>>), Undefined),
     Entry(Str(<<"Personality", SP, LP, "Aria", RP>>), Str(<<"plain", SP>>), Undefined),
     Entry(Str(<<"Personality", SP, LP, "Aria", RP>>),
           Str(<<SETVAR, SP, CLOSE, "p">>), Undefined),
     Entry(Str(<<"Behavior", SP, LP, "Aria", RP>>), Str(<<"b", SP>>), Undefined)}

InitFrags ==
    /\ entries \in SeqsUpTo(FragEntries, MaxFrags)
    /\ idx = 0
    /\ lumiaMap = <<>> /\ loomItems = <<>> /\ extMap = <<>>
    /\ IdleMeta
    /\ IdleMain
    /\ IdleSettings /\ IdleUI

SpecFrags == InitFrags /\ [][NextBook]_vars

IsBehaviorFragment(e) == CommentText(e)[1] = "Behavior"

\* the text has the marker: its opening and, after it, a closing "}}"
HasMarker(c, open) ==
    \E k \in 1..Len(c), j \in 1..Len(c) : k < j /\ c[k] = open /\ c[j] = CLOSE

\* what the marker captures: the text between its opening and the next
\* "}}", without the blanks around it
CaptureOf(c, open) ==
    LET k == Min({m \in 1..Len(c) : c[m] = open})
        j == Min({m \in (k + 1)..Len(c) : c[m] = CLOSE})
    IN  Trim(SubSeq(c, k + 1, j - 1))

\* a behavior text is unset while it is null or empty
Unset(v) == v = JSNull \/ v = Str(<<>>)

RECURSIVE BehaviorAfter(_)
BehaviorAfter(es) ==
    IF es = <<>> THEN JSNull
    ELSE LET before == BehaviorAfter(SubSeq(es, 1, Len(es) - 1))
             e == es[Len(es)]
         IN  IF IsBehaviorFragment(e) THEN e.content
             ELSE IF HasMarker(e.content.s, SETVAR) /\ Unset(before)
             THEN Str(CaptureOf(e.content.s, SETVAR))
             ELSE before

RECURSIVE PersonalityAfter(_)
PersonalityAfter(es) ==
    IF es = <<>> THEN JSNull
    ELSE LET before == PersonalityAfter(SubSeq(es, 1, Len(es) - 1))
             e == es[Len(es)]
         IN  IF IsBehaviorFragment(e) THEN before
             ELSE IF HasMarker(e.content.s, SETGLOBALVAR)
             THEN Str(CaptureOf(e.content.s, SETGLOBALVAR))
             ELSE e.content

\* C12: a personality fragment fills the behavior text from its behavior
\* marker only while the behavior text is unset, and sets the personality
\* text to the capture of its personality marker, or to its entire raw
\* content without one; a lone fragment whose behavior marker captures
\* 'Be brave' gives behavior 'Be brave' and the raw content as personality.
\* The same holds for the extension's copy.
C12_PersonalityFragment ==
    idx >= 1 =>
        /\ Len(lumiaMap) = 1 /\ Len(extMap) = 1
        /\ lumiaMap[1].lumiaBehavior = BehaviorAfter(Seen)
        /\ lumiaMap[1].lumiaPersonality = PersonalityAfter(Seen)
        /\ extMap[1].lumia_behavior = BehaviorAfter(Seen)
        /\ extMap[1].lumia_personality = PersonalityAfter(Seen)
        /\ (idx = 1 /\ entries[1] = BeBraveEntry) =>
              /\ lumiaMap[1].lumiaBehavior = Str(<<"Be", SP, "brave">>)
              /\ lumiaMap[1].lumiaPersonality = BeBraveEntry.content

\* a behavior fragment, then the 'Be brave' fragment: the behavior text is
\* still that of the behavior fragment and the personality is the raw content
C12_Witness ==
    /\ idx = 2
    /\ IsBehaviorFragment(entries[1])
    /\ entries[2] = BeBraveEntry
    /\ lumiaMap[1].lumiaBehavior = entries[1].content
    /\ lumiaMap[1].lumiaPersonality = BeBraveEntry.content
    /\ extMap[1].lumia_behavior = entries[1].content

-----------------------------------------------------------------------------
(* The extension's settings: packs, selections, legacy keys *)

\* { packName, itemName }
Ref(packName, itemName) ==
    [t |-> "object", packName |-> packName, itemName |-> itemName]

\* { name, items, url }
Pack(name, items, url) ==
    [t |-> "object", name |-> name, items |-> items, url |-> url]

LEGACY_PACK == Str(<<"Default (Legacy)">>)

\* settings.packs as an object: its keys in insertion order and the pack under
\* each; a packs mapping of the data model holds each pack under its name
PackMapping(ps) ==
    [t |-> "object", values |-> ps, keys |-> [k \in 1..Len(ps) |-> ps[k].name]]

\* the module's initial settings object; a key that is not there reads
\* undefined.  The Loom selections are those of the modal module.
DefaultSettings ==
    [t |-> "object",
     packs |-> PackMapping(<<>>),
     selectedDefinition |-> JSNull,
     selectedBehaviors |-> Arr(<<>>),
     selectedPersonalities |-> Arr(<<>>),
     selectedLoomStyle |-> JSNull,
     selectedLoomUtils |-> Arr(<<>>),
     selectedLoomRetrofits |-> Arr(<<>>),
     lumiaOOCInterval |-> JSNull,
     lumiaLibrary |-> Undefined,
     worldBookData |-> Undefined,
     worldBookUrl |-> Undefined]

\* Object.keys(settings.packs).length
PackCount(s) == Len(s.packs.values)

\* settings.packs[packName]
HasPack(s, packName) ==
    \E k \in 1..PackCount(s) : s.packs.keys[k] = packName

PackAt(s, packName) ==
    IF HasPack(s, packName)
    THEN s.packs.values[CHOOSE k \in 1..PackCount(s) :
                            s.packs.keys[k] = packName]
    ELSE Undefined

\* settings.packs[packName] = pack: an existing key keeps its place
SetPack(s, packName, pack) ==
    IF HasPack(s, packName)
    THEN [s EXCEPT !.packs.values =
            [k \in 1..Len(@) |-> IF s.packs.keys[k] = packName THEN pack ELSE @[k]]]
    ELSE [s EXCEPT !.packs.values = Append(@, pack),
                   !.packs.keys = Append(@, packName)]

\* delete settings.packs[packName]
DeletePack(s, packName) ==
    IF ~HasPack(s, packName) THEN s
    ELSE LET at == CHOOSE k \in 1..PackCount(s) : s.packs.keys[k] = packName
             without(seq) == SubSeq(seq, 1, at - 1) \o SubSeq(seq, at + 1, Len(seq))
         IN  [s EXCEPT !.packs.values = without(@), !.packs.keys = without(@)]

\* getName = (idx) => items[idx]?.lumiaDefName
getName(items, index) ==
    IF index.t = "number" /\ index.n \in 0..(Len(items) - 1)
    THEN Get(items[index.n + 1], "lumiaDefName")
    ELSE Undefined

\* a translation that stops at the first index that does not resolve
RECURSIVE MapIndices_UntilFailure(_, _)
MapIndices_UntilFailure(items, indices) ==
    IF indices = <<>> THEN <<>>
    ELSE LET name == getName(items, Head(indices))
         IN  IF Truthy(name)
             THEN <<Ref(LEGACY_PACK, name)>>
                  \o MapIndices_UntilFailure(items, Tail(indices))
             ELSE <<>>

\* .map(idx => name ? { packName, itemName: name } : null).filter(x => x)
RECURSIVE MapIndices(_, _)
MapIndices(items, indices) ==
    IF indices = <<>> THEN <<>>
    ELSE LET name == getName(items, Head(indices))
             rest == MapIndices(items, Tail(indices))
         IN  IF Truthy(name) THEN <<Ref(LEGACY_PACK, name)>> \o rest ELSE rest

\* the migration of one multi-selection
MigrateMulti(items, selected) ==
    IF selected.t = "array" /\ Len(selected.a) > 0 /\ selected.a[1].t = "number"
    THEN Arr(MapIndices(items, selected.a))
    ELSE Arr(<<>>)

\* the items migrateSettings derives from the legacy keys
LegacyItemsOf(s) ==
    LET legacyItems == Or(s.lumiaLibrary, Arr(<<>>))
    IN  IF Len(legacyItems.a) = 0 /\ Truthy(s.worldBookData)
        THEN Arr(index_processWorldBook(s.worldBookData))
        ELSE legacyItems

\* a guard that does not look at the packs mapping
MigrationGuard_AnyPacks(s) ==
    Truthy(s.lumiaLibrary) \/ Truthy(s.worldBookData)

\* the guard of migrateSettings
MigrationGuard(s) ==
    (Truthy(s.lumiaLibrary) \/ Truthy(s.worldBookData)) /\ PackCount(s) = 0

\* "Ensure defaults"
EnsureDefaults(s) ==
    [s EXCEPT
       !.selectedBehaviors = IF Truthy(@) THEN @ ELSE Arr(<<>>),
       !.selectedPersonalities = IF Truthy(@) THEN @ ELSE Arr(<<>>),
       !.lumiaOOCInterval = IF @ = Undefined THEN JSNull ELSE @]

\* the pass over the derived items, leaving the legacy keys in the settings
Migrate_KeepingKeys(s, items) ==
    LET build == MigrationGuard(s) /\ Len(items.a) > 0
        name == getName(items.a, s.selectedDefinition)
    IN  [settings |->
            EnsureDefaults(
                IF build
                THEN [SetPack(s, LEGACY_PACK,
                              Pack(LEGACY_PACK, items,
                                   Or(s.worldBookUrl, Str(<<"Legacy">>)))) EXCEPT
                        !.selectedDefinition =
                            IF @.t = "number"
                            THEN (IF Truthy(name) THEN Ref(LEGACY_PACK, name)
                                  ELSE JSNull)
                            ELSE @,
                        !.selectedBehaviors = MigrateMulti(items.a, @),
                        !.selectedPersonalities = MigrateMulti(items.a, @)]
                ELSE s),
         migrated |-> build]

\* a migration that leaves the legacy keys in the settings
migrateSettings_KeepingKeys(s) == Migrate_KeepingKeys(s, LegacyItemsOf(s))

\* the pass over the derived items: the legacy pack, the selections, the
\* legacy keys, the defaults
Migrate(s, items) ==
    LET build == MigrationGuard(s) /\ Len(items.a) > 0
        name == getName(items.a, s.selectedDefinition)
    IN  [settings |->
            EnsureDefaults(
                IF build
                THEN [SetPack(s, LEGACY_PACK,
                              Pack(LEGACY_PACK, items,
                                   Or(s.worldBookUrl, Str(<<"Legacy">>)))) EXCEPT
                        !.selectedDefinition =
                            IF @.t = "number"
                            THEN (IF Truthy(name) THEN Ref(LEGACY_PACK, name)
                                  ELSE JSNull)
                            ELSE @,
                        !.selectedBehaviors = MigrateMulti(items.a, @),
                        !.selectedPersonalities = MigrateMulti(items.a, @),
                        !.lumiaLibrary = Undefined,
                        !.worldBookData = Undefined,
                        !.worldBookUrl = Undefined]
                ELSE s),
         migrated |-> build]

\* migrateSettings: the settings it leaves and the value it returns
migrateSettings(s) == Migrate(s, LegacyItemsOf(s))

\* { ...settings, ...extension_settings[SETTINGS_KEY] }
Merge(s, saved) ==
    [f \in DOMAIN s |-> IF f = "t" THEN "object"
                        ELSE IF saved[f] # Undefined THEN saved[f] ELSE s[f]]

-----------------------------------------------------------------------------
(* loadSettings *)

saveSettings(s) == s

\* loadSettings: merge what is stored, migrate, save when migrated; with
\* nothing stored the settings object itself becomes the stored one.
LoadSettings ==
    /\ IF Truthy(extension_settings)
       THEN \E merged \in {Merge(settings, extension_settings)} :
            \E r \in {migrateSettings(merged)} :
                /\ loaded' = merged
                /\ settings' = r.settings
                /\ extension_settings' =
                       IF r.migrated THEN saveSettings(r.settings)
                       ELSE extension_settings
                /\ migrations' = migrations + (IF r.migrated THEN 1 ELSE 0)
       ELSE /\ extension_settings' = settings
            /\ UNCHANGED <<settings, migrations, loaded>>
    /\ shown' = Undefined
    /\ UNCHANGED <<metaVars, bookVars, mainVars, uiVars>>

-----------------------------------------------------------------------------
(* Stored settings of the schema before packs *)

MaxLegacy == 3
MaxSelected == 2

LegacyItem(name) == [index_NewLumia(name) EXCEPT !.lumiaDef = Str(<<"d">>)]

\* an item of the legacy library that has no name
NamelessItem == [LegacyItem(<<>>) EXCEPT !.lumiaDefName = JSNull]

LegacyLibrary ==
    <<LegacyItem(<<"Aria">>), NamelessItem, LegacyItem(<<"Bob">>),
      LegacyItem(<<"Cleo">>), LegacyItem(<<"Dana">>)>>

LegacyLists == {SubSeq(LegacyLibrary, 1, k) : k \in 0..MaxLegacy}

\* a legacy knowledge source that yields one item, and one that yields none
LegacyBooks ==
    {WithField(EmptyObject, "entries", Mapping(<<AriaEntry>>)),
     WithField(EmptyObject, "entries", Mapping(<<>>))}

\* positional selections: in range with a name, in range without, out of range
LegacyIndices == {Num(0), Num(1), Num(9)}

ImportedPack == Pack(Str(<<"P">>), Arr(<<LegacyItem(<<"Aria">>)>>), Str(<<"u">>))

StoredSettings(lists) ==
    {[DefaultSettings EXCEPT
        !.lumiaLibrary = lib, !.worldBookData = book, !.worldBookUrl = url,
        !.packs = PackMapping(ps), !.selectedDefinition = def,
        !.selectedBehaviors = Arr(bs), !.selectedPersonalities = Arr(pers)] :
       lib \in {Undefined} \cup {Arr(l) : l \in lists},
       book \in {Undefined} \cup LegacyBooks,
       url \in {Undefined, Str(<<"u">>)},
       ps \in {<<>>, <<ImportedPack>>},
       def \in LegacyIndices \cup
               {Num(-1), Num(2), JSNull, Ref(Str(<<"P">>), Str(<<"Aria">>))},
       bs \in SeqsUpTo(LegacyIndices, MaxSelected)
              \cup {<<Ref(Str(<<"P">>), Str(<<"Aria">>))>>},
       pers \in {<<>>, <<Num(2), Num(0)>>, <<Num(9)>>,
                 <<Ref(Str(<<"P">>), Str(<<"Aria">>))>>}}

InitMigrate ==
    /\ IdleMeta /\ IdleBook /\ IdleMain /\ IdleUI
    /\ settings = DefaultSettings
    /\ extension_settings \in StoredSettings(LegacyLists)
    /\ shown = Undefined /\ migrations = 0 /\ loaded = Undefined

SpecMigrate == InitMigrate /\ [][LoadSettings]_vars

-----------------------------------------------------------------------------
(* C13: a numeric legacy selectedDefinition after a migration pass *)

\* loadSettings has just run migrateSettings on an object whose guard held
GuardHeld == loaded # Undefined /\ MigrationGuard(loaded)

\* the single-selection rule applied to an index over the derived items
RefOfIndex(items, index) ==
    IF index.t = "number" /\ index.n \in 0..(Len(items) - 1)
       /\ Truthy(Get(items[index.n + 1], "lumiaDefName"))
    THEN Ref(LEGACY_PACK, items[index.n + 1].lumiaDefName)
    ELSE JSNull

\* C13: after a migration pass over any legacy item list, the empty one
\* included, a numeric selectedDefinition has become the SelectionRef of the
\* named item at that index in the legacy pack, and null when the index is
\* out of range or the item has no name.
C13_IndexBecomesRefOrNull ==
    (GuardHeld /\ loaded.selectedDefinition.t = "number")
        => settings.selectedDefinition =
               RefOfIndex(LegacyItemsOf(loaded).a, loaded.selectedDefinition)

-----------------------------------------------------------------------------
(* C14: the legacy multi-selections after a migration pass *)

\* the pass that has just run built the legacy pack
Migrated == GuardHeld /\ Len(LegacyItemsOf(loaded).a) > 0

IsIndexList(v) ==
    v.t = "array" /\ \A k \in 1..Len(v.a) : v.a[k].t = "number"

\* one SelectionRef per index that resolves to a named item, in order
ResolvedRefs(items, indices) ==
    LET refs == [k \in 1..Len(indices) |-> RefOfIndex(items, indices[k])]
        resolves(r) == r # JSNull
    IN  SelectSeq(refs, resolves)

MultiMigrated(key) ==
    IsIndexList(loaded[key])
        => settings[key] =
               Arr(ResolvedRefs(LegacyItemsOf(loaded).a, loaded[key].a))

-----------------------------------------------------------------------------
(* C15: the legacy keys after a migration pass *)

LegacyKeys == {"lumiaLibrary", "worldBookData", "worldBookUrl"}

\* C15: after a migration pass whose guard held (a legacy key present, the
\* packs mapping empty) none of lumiaLibrary, worldBookData, worldBookUrl is
\* left in the settings, whether or not the derived item list is empty.
C15_LegacyKeysDeleted ==
    GuardHeld => \A key \in LegacyKeys : settings[key] = Undefined

-----------------------------------------------------------------------------
(* C17: migrateSettings when there is nothing to migrate *)

NothingToMigrate(s) ==
    PackCount(s) > 0 \/ \A key \in LegacyKeys : s[key] = Undefined

SelectionKeys == {"selectedDefinition", "selectedBehaviors", "selectedPersonalities"}

\* C17: when the packs mapping is not empty, or no legacy key is present,
\* migrateSettings returns false and leaves the packs mapping and the stored
\* definition, behavior and personality selections as they were.
C17_NothingToMigrate ==
    (loaded # Undefined /\ NothingToMigrate(loaded))
        => /\ ~migrateSettings(loaded).migrated
           /\ settings.packs = loaded.packs
           /\ \A key \in SelectionKeys : settings[key] = loaded[key]

\* legacy keys and positional selections next to an existing pack
C17_Witness ==
    /\ loaded # Undefined
    /\ PackCount(loaded) > 0
    /\ Truthy(loaded.lumiaLibrary)
    /\ loaded.selectedDefinition = Num(0)
    /\ settings.selectedDefinition = Num(0)
    /\ settings.selectedBehaviors = Arr(<<Num(0), Num(1)>>)
    /\ settings.packs = PackMapping(<<ImportedPack>>)
    /\ migrations = 0

-----------------------------------------------------------------------------
(* getItemFromLibrary *)

\* pack.items.find(i => i.lumiaDefName === itemName): undefined when no item
\* matches
Find(items, itemName) ==
    LET hits == {k \in 1..Len(items) : Get(items[k], "lumiaDefName") = itemName}
    IN  IF hits = {} THEN Undefined ELSE items[Min(hits)]

\* getItemFromLibrary: a pack whose items is not an array makes .find throw
getItemFromLibrary(s, packName, itemName) ==
    LET pack == PackAt(s, packName)
    IN  IF ~Truthy(pack) THEN Returned(JSNull)
        ELSE IF pack.items.t # "array" THEN Thrown
        ELSE Returned(Find(pack.items.a, itemName))

\* getItemFromLibrary(sel.packName, sel.itemName)
Resolve(s, sel) ==
    getItemFromLibrary(s, Get(sel, "packName"), Get(sel, "itemName"))

-----------------------------------------------------------------------------
(* getItemFromLibrary applied to a SelectionRef and a packs mapping *)

MaxPacks == 2

\* { loomName, loomCategory, loomContent }
LoomItem(name, category) ==
    [t |-> "object", loomName |-> Str(<<name>>), loomCategory |-> Str(<<category>>),
     loomContent |-> Str(<<"c">>)]

\* stored packs: with items, with an empty items array, and one stored
\* without an items array
StoredPacks ==
    {Pack(Str(<<"P">>), Arr(<<LegacyItem(<<"Aria">>), LegacyItem(<<"Bob">>)>>), Str(<<>>)),
     Pack(Str(<<"P">>), Arr(<<>>), Str(<<>>)),
     Pack(Str(<<"P">>), Undefined, Str(<<>>)),
     Pack(Str(<<"Q">>),
          Arr(<<LoomItem("Gothic", NARRATIVE_STYLE), LegacyItem(<<"Cleo">>)>>),
          Str(<<"u">>))}

PackMappings ==
    {ps \in SeqsUpTo(StoredPacks, MaxPacks) :
        \A j, k \in 1..Len(ps) : j # k => ps[j].name # ps[k].name}

SelectionRefs ==
    {Ref(Str(<<p>>), Str(<<i>>)) :
        p \in {"P", "Q", "Gone"}, i \in {"Aria", "Bob", "Cleo", "Nobody"}}

InitResolve ==
    /\ IdleMeta /\ IdleBook /\ IdleMain /\ IdleUI
    /\ \E ps \in PackMappings, sel \in SelectionRefs :
          settings = [DefaultSettings EXCEPT !.packs = PackMapping(ps),
                                             !.selectedDefinition = sel]
    /\ extension_settings = settings
    /\ shown = Undefined /\ migrations = 0 /\ loaded = Undefined

CallGetItemFromLibrary ==
    /\ shown = Undefined
    /\ shown' = Resolve(settings, settings.selectedDefinition)
    /\ UNCHANGED <<settings, extension_settings, migrations, loaded>>
    /\ UNCHANGED <<metaVars, bookVars, mainVars, uiVars>>

SpecResolve == InitResolve /\ [][CallGetItemFromLibrary]_vars

-----------------------------------------------------------------------------
(* C19: what getItemFromLibrary returns *)

\* the items a stored pack holds, none when it has no items array
ItemsOfPack(pack) == IF Get(pack, "items").t = "array" THEN pack.items.a ELSE <<>>

Named(items, itemName) ==
    {k \in 1..Len(items) : Get(items[k], "lumiaDefName") = itemName}

\* C19: for every SelectionRef and every packs mapping, whatever the shape of
\* the stored pack, getItemFromLibrary raises no error and returns the item of
\* that name in that pack, or a null result when the pack or the item does not
\* exist.
C19_ItemOrNullNeverThrows ==
    shown # Undefined =>
        LET sel == settings.selectedDefinition
            items == ItemsOfPack(PackAt(settings, sel.packName))
            hits == Named(items, sel.itemName)
        IN  /\ ~shown.threw
            /\ IF hits = {} THEN shown.value \in {JSNull, Undefined}
               ELSE shown.value \in {items[k] : k \in hits}

-----------------------------------------------------------------------------
(* Rendering: refreshUI, getLumiaContent and the macros *)

\* Array.prototype.join over texts
RECURSIVE JoinTexts(_, _)
JoinTexts(texts, sep) ==
    IF texts = <<>> THEN <<>>
    ELSE IF Len(texts) = 1 THEN texts[1]
    ELSE texts[1] \o sep \o JoinTexts(Tail(texts), sep)

\* some getItemFromLibrary call over the selections throws
AnyThrows(s, sels) == \E k \in 1..Len(sels) : Resolve(s, sels[k]).threw

\* .map(sel => item ? item.lumiaDefName : null).filter(n => n)
SelectedNames(s, sels) ==
    LET names == [k \in 1..Len(sels) |->
                    LET item == Resolve(s, sels[k]).value
                    IN  IF Truthy(item) THEN Get(item, "lumiaDefName") ELSE JSNull]
    IN  SelectSeq(names, Truthy)

ListText(names, none) ==
    IF Len(names) > 0
    THEN Str(JoinTexts([k \in 1..Len(names) |-> names[k].s], <<",", SP>>))
    ELSE Str(<<none>>)

\* the label of the selected definition
DefinitionText(s) ==
    LET sel == s.selectedDefinition
        item == Resolve(s, sel).value
    IN  IF ~Truthy(sel) THEN Str(<<"No definition selected">>)
        ELSE IF Truthy(item)
        THEN Str(item.lumiaDefName.s \o <<SP, LP>> \o sel.packName.s \o <<RP>>)
        ELSE Str(<<"Item not found (Maybe pack removed?)">>)

\* refreshUI: the texts it writes, or the error a pack without an items array
\* raises in the item count or in getItemFromLibrary
refreshUI(s) ==
    LET packs == s.packs.values
        noPacks == Str(<<"No selection possible (Load definitions first)">>)
    IN  IF Len(packs) = 0
        THEN Returned([t |-> "object",
                       status |-> Str(<<"No Lumia Definitions loaded">>),
                       definition |-> noPacks, behaviors |-> noPacks,
                       personalities |-> noPacks])
        ELSE IF \/ \E k \in 1..Len(packs) : packs[k].items.t # "array"
                \/ (Truthy(s.selectedDefinition)
                    /\ Resolve(s, s.selectedDefinition).threw)
                \/ AnyThrows(s, s.selectedBehaviors.a)
                \/ AnyThrows(s, s.selectedPersonalities.a)
        THEN Thrown
        ELSE Returned([t |-> "object",
                       status |-> Str(<<"Loaded", "packs">>),
                       definition |-> DefinitionText(s),
                       behaviors |-> ListText(SelectedNames(s, s.selectedBehaviors.a),
                                              "No behaviors selected"),
                       personalities |-> ListText(SelectedNames(s, s.selectedPersonalities.a),
                                                  "No personalities selected")])

\* getLumiaContent for a multi-selection: the trimmed non-empty texts of the
\* items that resolve
ContentsOf(s, field, sels) ==
    LET texts == [k \in 1..Len(sels) |->
                    LET item == Resolve(s, sels[k]).value
                    IN  IF ~Truthy(item) THEN Str(<<>>)
                        ELSE Or(Get(item, field), Str(<<>>))]
        trimmed == SelectSeq(texts, Truthy)
    IN  [k \in 1..Len(trimmed) |-> Trim(trimmed[k].s)]

getLumiaContent(s, type, selection) ==
    IF ~Truthy(selection) THEN Returned(Str(<<>>))
    ELSE IF selection.t = "array"
    THEN IF AnyThrows(s, selection.a) THEN Thrown
         ELSE IF type = "behavior"
         THEN Returned(Str(Trim(JoinTexts(ContentsOf(s, "lumia_behavior", selection.a),
                                          <<NL>>))))
         ELSE IF type = "personality"
         THEN Returned(Str(Trim(JoinTexts(ContentsOf(s, "lumia_personality", selection.a),
                                          <<NL, NL>>))))
         ELSE Returned(Str(<<>>))
    ELSE LET r == Resolve(s, selection)
         IN  IF r.threw THEN Thrown
             ELSE IF ~Truthy(r.value) THEN Returned(Str(<<>>))
             ELSE IF type = "def"
             THEN Returned(Str(Trim(Or(Get(r.value, "lumiaDef"), Str(<<>>)).s)))
             ELSE Returned(Str(<<>>))

\* the lumiaDef, lumiaBehavior and lumiaPersonality macros of one prompt
Macros(s) ==
    LET def == getLumiaContent(s, "def", s.selectedDefinition)
        beh == getLumiaContent(s, "behavior", s.selectedBehaviors)
        per == getLumiaContent(s, "personality", s.selectedPersonalities)
    IN  IF def.threw \/ beh.threw \/ per.threw THEN Thrown
        ELSE Returned([t |-> "object", lumiaDef |-> def.value,
                       lumiaBehavior |-> beh.value, lumiaPersonality |-> per.value])

-----------------------------------------------------------------------------
(* The handlers that change or show the settings *)

\* the handlers are bound after loadSettings has run; from then on the stored
\* object is the settings object
Ready == extension_settings = settings

\* lines 867-871: the pack under its name, the whole library as its items
Installed(s, library, sourceName, isURL) ==
    SetPack(s, sourceName,
            Pack(sourceName, Arr(library), IF isURL THEN sourceName ELSE Str(<<>>)))

\* an import that installs a pack for a book without items
ImportLibrary_NoEarlyReturn(library, sourceName, isURL, overwrite) ==
    /\ Ready
    /\ IF HasPack(settings, sourceName) /\ ~overwrite
       THEN /\ shown' = Undefined
            /\ UNCHANGED <<settings, extension_settings>>
       ELSE \E stored \in {Installed(settings, library, sourceName, isURL)} :
                /\ settings' = stored
                /\ extension_settings' = saveSettings(stored)
                /\ shown' = refreshUI(stored)

\* an import that leaves a pack that is there, whatever the user answers
ImportLibrary_KeepExisting(library, sourceName, isURL, overwrite) ==
    /\ Ready
    /\ IF Len(library) = 0 \/ HasPack(settings, sourceName)
       THEN /\ shown' = Undefined
            /\ UNCHANGED <<settings, extension_settings>>
       ELSE \E stored \in {Installed(settings, library, sourceName, isURL)} :
                /\ settings' = stored
                /\ extension_settings' = saveSettings(stored)
                /\ shown' = refreshUI(stored)

\* handleNewBook once the book is processed, as to the settings and what is
\* rendered: nothing happens for a book without items, or when the user
\* declines to overwrite a pack of that name
ImportLibrary(library, sourceName, isURL, overwrite) ==
    /\ Ready
    /\ IF Len(library) = 0 \/ (HasPack(settings, sourceName) /\ ~overwrite)
       THEN /\ shown' = Undefined
            /\ UNCHANGED <<settings, extension_settings>>
       ELSE \E stored \in {Installed(settings, library, sourceName, isURL)} :
                /\ settings' = stored
                /\ extension_settings' = saveSettings(stored)
                /\ shown' = refreshUI(stored)

\* handleNewBook, called for a file the user has chosen
HandleNewBook(data, sourceName, isURL, overwrite) ==
    /\ \E library \in {index_processWorldBook(data)} :
          ImportLibrary(library, sourceName, isURL, overwrite)
    /\ loaded' = Undefined
    /\ UNCHANGED <<migrations, metaVars, bookVars, mainVars, uiVars>>

\* .filter(s => s.packName !== packName)
NotOfPack(sels, packName) ==
    LET keep(sel) == Get(sel, "packName") # packName
    IN  SelectSeq(sels, keep)

\* the remove pack handler, once the user has confirmed; the button exists for
\* a pack that has items
RemovePack(packName) ==
    \E pack \in {PackAt(settings, packName)} :
    \E pruned \in
        {[DeletePack(settings, packName) EXCEPT
            !.selectedDefinition =
                IF Truthy(@) /\ Get(@, "packName") = packName THEN JSNull ELSE @,
            !.selectedBehaviors = Arr(NotOfPack(@.a, packName)),
            !.selectedPersonalities = Arr(NotOfPack(@.a, packName))]} :
        /\ Ready
        /\ Truthy(pack)
        /\ Truthy(pack.items)
        /\ Len(pack.items.a) > 0
        /\ settings' = pruned
        /\ extension_settings' = saveSettings(pruned)
        /\ shown' = IF PackCount(pruned) = 0 THEN refreshUI(pruned) ELSE Undefined
        /\ loaded' = Undefined
        /\ UNCHANGED <<migrations, metaVars, bookVars, mainVars, uiVars>>

\* a click that pushes the reference whether or not it is in the list
Toggle_AlwaysPush(collection, ref) == Append(collection, ref)

\* findIndex, then splice or push
Toggle(collection, ref) ==
    LET hits == {k \in 1..Len(collection) :
                    /\ Get(collection[k], "packName") = ref.packName
                    /\ Get(collection[k], "itemName") = ref.itemName}
    IN  IF hits # {}
        THEN SubSeq(collection, 1, Min(hits) - 1)
             \o SubSeq(collection, Min(hits) + 1, Len(collection))
        ELSE Append(collection, ref)

\* a click on a grid item: key names the selection, multi says whether it is
\* a list
Select(key, multi, packName, itemName) ==
    \E chosen \in
        {IF multi
         THEN [settings EXCEPT ![key] = Arr(Toggle(@.a, Ref(packName, itemName)))]
         ELSE [settings EXCEPT ![key] = Ref(packName, itemName)]} :
        /\ multi => Len(chosen[key].a) <= MaxSelected
        /\ settings' = chosen
        /\ extension_settings' = saveSettings(chosen)
        /\ shown' = IF multi THEN Undefined ELSE refreshUI(chosen)
        /\ loaded' = Undefined
        /\ UNCHANGED <<migrations, metaVars, bookVars, mainVars, uiVars>>

\* the pack holds an item whose field has the value
HasItem(pack, field, itemName) ==
    /\ Truthy(pack)
    /\ Truthy(pack.items)
    /\ \E k \in 1..Len(pack.items.a) : Get(pack.items.a[k], field) = itemName

\* showSelectionModal, item selection
SelectItem(type, packName, itemName) ==
    /\ Ready
    /\ HasItem(PackAt(settings, packName), "lumiaDefName", itemName)
    /\ Select(CASE type = "definition" -> "selectedDefinition"
                [] type = "behavior" -> "selectedBehaviors"
                [] OTHER -> "selectedPersonalities",
              type # "definition", packName, itemName)

\* the pack holds a Loom item of the name in the category
HasLoomItem(pack, category, itemName) ==
    /\ HasItem(pack, "loomName", itemName)
    /\ \E k \in 1..Len(pack.items.a) :
          /\ Get(pack.items.a[k], "loomName") = itemName
          /\ Get(pack.items.a[k], "loomCategory") = Str(<<category>>)

\* showLoomSelectionModal, item selection
SelectLoomItem(category, packName, itemName) ==
    /\ Ready
    /\ HasLoomItem(PackAt(settings, packName), category, itemName)
    /\ Select(CASE category = NARRATIVE_STYLE -> "selectedLoomStyle"
                [] category = LOOM_UTILITIES -> "selectedLoomUtils"
                [] OTHER -> "selectedLoomRetrofits",
              category # NARRATIVE_STYLE, packName, itemName)

\* a rendering that prunes the references that do not resolve
RefreshUI_Pruning ==
    LET resolves(sel) == Truthy(Resolve(settings, sel).value)
        pruned == [settings EXCEPT
                     !.selectedBehaviors = Arr(SelectSeq(@.a, resolves)),
                     !.selectedPersonalities = Arr(SelectSeq(@.a, resolves))]
    IN  /\ Ready
        /\ shown' = refreshUI(settings)
        /\ settings' = pruned
        /\ extension_settings' = pruned
        /\ loaded' = Undefined
        /\ UNCHANGED <<migrations, metaVars, bookVars, mainVars, uiVars>>

\* refreshUI
RefreshUI ==
    /\ Ready
    /\ shown' = refreshUI(settings)
    /\ loaded' = Undefined
    /\ UNCHANGED <<settings, extension_settings, migrations>>
    /\ UNCHANGED <<metaVars, bookVars, mainVars, uiVars>>

\* a prompt in which the three macros are evaluated
EvalMacros ==
    /\ Ready
    /\ shown' = Macros(settings)
    /\ loaded' = Undefined
    /\ UNCHANGED <<settings, extension_settings, migrations>>
    /\ UNCHANGED <<metaVars, bookVars, mainVars, uiVars>>

-----------------------------------------------------------------------------
(* The extension from its start *)

FullItem(name) ==
    [index_NewLumia(<<name>>) EXCEPT !.lumiaDef = Str(<<"d", name, SP>>),
                                     !.lumia_behavior = Str(<<SP, "b", name>>),
                                     !.lumia_personality = Str(<<"p", name, NL>>)]

\* settings stored by the schema before packs
LegacyStored ==
    [DefaultSettings EXCEPT
       !.lumiaLibrary = Arr(<<FullItem("Aria"), NamelessItem, FullItem("Bob")>>),
       !.worldBookUrl = Str(<<"u">>),
       !.selectedDefinition = Num(0),
       !.selectedBehaviors = Arr(<<Num(2), Num(9)>>),
       !.selectedPersonalities = Arr(<<Num(1), Num(0)>>)]

\* settings stored with a pack that holds Loom items, and with references to
\* a pack and to an item that are not there
ModernStored ==
    [DefaultSettings EXCEPT
       !.packs = PackMapping(<<Pack(Str(<<"Q">>),
                                Arr(<<FullItem("Cleo"),
                                      LoomItem("Gothic", NARRATIVE_STYLE),
                                      LoomItem("Tool", LOOM_UTILITIES),
                                      LoomItem("Fix", RETROFITS)>>),
                                Str(<<"u">>))>>),
       !.selectedDefinition = Ref(Str(<<"Gone">>), Str(<<"Aria">>)),
       !.selectedBehaviors = Arr(<<Ref(Str(<<"Gone">>), Str(<<"Aria">>)),
                                   Ref(Str(<<"Q">>), Str(<<"Cleo">>))>>),
       !.selectedPersonalities = Arr(<<Ref(Str(<<"Q">>), Str(<<"Nobody">>))>>),
       !.selectedLoomStyle = Ref(Str(<<"Q">>), Str(<<"Gothic">>))]

\* the books a user imports: two with one item each, one without items
ImportBooks ==
    {WithField(EmptyObject, "entries", Mapping(es)) :
        es \in {<<AriaEntry,
                  Entry(Str(<<"Behavior", SP, LP, "Aria", RP>>), Str(<<"b", SP>>),
                        Undefined)>>,
                <<Entry(Str(<<"Behavior", SP, LP, "Bob", RP>>), Str(<<"b2">>),
                        Undefined)>>,
                <<>>}}

PackNames == {LEGACY_PACK, Str(<<"P">>), Str(<<"Q">>)}

Click(kind, packName, itemName) ==
    [kind |-> kind, packName |-> packName, itemName |-> Str(<<itemName>>)]

\* the grid items a user clicks in the selection modal
Clicks ==
    {Click("definition", LEGACY_PACK, "Aria"), Click("definition", Str(<<"P">>), "Aria"),
     Click("definition", Str(<<"Q">>), "Cleo"),
     Click("behavior", LEGACY_PACK, "Aria"), Click("behavior", LEGACY_PACK, "Bob"),
     Click("behavior", Str(<<"P">>), "Aria"), Click("behavior", Str(<<"Q">>), "Cleo"),
     Click("personality", LEGACY_PACK, "Bob"), Click("personality", Str(<<"P">>), "Aria"),
     Click("personality", Str(<<"Q">>), "Cleo")}

\* the grid items a user clicks in the Loom selection modal
LoomClicks ==
    {Click(NARRATIVE_STYLE, Str(<<"Q">>), "Gothic"),
     Click(LOOM_UTILITIES, Str(<<"Q">>), "Tool"),
     Click(RETROFITS, Str(<<"Q">>), "Fix")}

InitSettings ==
    /\ IdleMeta /\ IdleBook /\ IdleMain /\ IdleUI
    /\ settings = DefaultSettings
    /\ extension_settings \in {Undefined, LegacyStored, ModernStored}
    /\ shown = Undefined /\ migrations = 0 /\ loaded = Undefined

NextSettings ==
    \/ LoadSettings
    \/ \E data \in ImportBooks, overwrite \in BOOLEAN :
          HandleNewBook(data, Str(<<"P">>), FALSE, overwrite)
    \/ \E packName \in PackNames : RemovePack(packName)
    \/ \E c \in Clicks : SelectItem(c.kind, c.packName, c.itemName)
    \/ \E c \in LoomClicks : SelectLoomItem(c.kind, c.packName, c.itemName)
    \/ RefreshUI
    \/ EvalMacros

SpecSettings == InitSettings /\ [][NextSettings]_vars

-----------------------------------------------------------------------------
(* C16: migration happens once *)

\* C16: migration is one-shot: in every run of loads, imports, pack removals
\* (down to no pack at all) and selection changes, migrateSettings builds the
\* legacy pack and rewrites the selections at most once, and once it has,
\* neither the settings nor what is stored holds a legacy key that could
\* trigger it again.
C16_MigrationIsOneShot ==
    /\ migrations <= 1
    /\ migrations = 1 =>
          /\ \A key \in LegacyKeys : settings[key] = Undefined
          /\ \A key \in LegacyKeys : extension_settings[key] = Undefined

\* a load after the migration, with every pack removed
C16_Witness ==
    /\ migrations = 1
    /\ loaded # Undefined
    /\ PackCount(loaded) = 0
    /\ loaded.lumiaLibrary = Undefined
    /\ PackCount(settings) = 0

-----------------------------------------------------------------------------
(* C18: the selections after a pack has been removed *)

SingleSelections == {"selectedDefinition", "selectedLoomStyle"}
MultiSelections ==
    {"selectedBehaviors", "selectedPersonalities",
     "selectedLoomUtils", "selectedLoomRetrofits"}

NamesPack(sel, packName) == Get(sel, "packName") = packName

\* no selection under the keys names the pack
NoRefTo(s, singles, multis, packName) ==
    /\ \A key \in singles : ~NamesPack(s[key], packName)
    /\ \A key \in multis :
          \A k \in 1..Len(s[key].a) : ~NamesPack(s[key].a[k], packName)

\* the selections that name another pack are those of before, in their order
OthersKept(before, after, singles, multis, packName) ==
    /\ \A key \in singles :
          ~NamesPack(before[key], packName) => after[key] = before[key]
    /\ \A key \in multis :
          LET other(sel) == ~NamesPack(sel, packName)
          IN  after[key].a = SelectSeq(before[key].a, other)

\* C18: removing pack P leaves no stored SelectionRef that names P, in the
\* definition, behavior, personality and Loom selections, single and multi
\* alike, and keeps every SelectionRef that names another pack, in its order.
C18_RemovalPrunesEveryRef ==
    [][\A packName \in PackNames :
          RemovePack(packName) =>
              /\ NoRefTo(settings', SingleSelections, MultiSelections, packName)
              /\ OthersKept(settings, settings', SingleSelections,
                            MultiSelections, packName)]_vars

-----------------------------------------------------------------------------
(* C20: rendering and macro evaluation leave the selections alone *)

IsRef(sel) == sel.t = "object"

\* the pack named by the reference holds an item of the name
Resolves(s, sel) ==
    \E k \in 1..PackCount(s) :
        /\ s.packs.keys[k] = Get(sel, "packName")
        /\ \E j \in 1..Len(s.packs.values[k].items.a) :
              Get(s.packs.values[k].items.a[j], "lumiaDefName") = Get(sel, "itemName")

Resolving(s, sels) ==
    LET resolves(sel) == Resolves(s, sel)
    IN  SelectSeq(sels, resolves)

Dangling(s, sels) == {k \in 1..Len(sels) : IsRef(sels[k]) /\ ~Resolves(s, sels[k])}

\* refreshUI has completed for a settings object that has packs
ShowsLists ==
    /\ shown # Undefined /\ ~shown.threw
    /\ "behaviors" \in DOMAIN shown.value
    /\ PackCount(settings) > 0

ShowsMacros ==
    /\ shown # Undefined /\ ~shown.threw
    /\ "lumiaBehavior" \in DOMAIN shown.value

\* the rendered texts are those of the references that resolve
RenderedWithoutDangling ==
    /\ ShowsLists =>
          /\ shown.value.behaviors =
                ListText([k \in 1..Len(Resolving(settings, settings.selectedBehaviors.a)) |->
                             Resolving(settings, settings.selectedBehaviors.a)[k].itemName],
                         "No behaviors selected")
          /\ shown.value.personalities =
                ListText([k \in 1..Len(Resolving(settings, settings.selectedPersonalities.a)) |->
                             Resolving(settings, settings.selectedPersonalities.a)[k].itemName],
                         "No personalities selected")
    /\ ShowsMacros =>
          /\ shown.value.lumiaBehavior =
                getLumiaContent(settings, "behavior",
                    Arr(Resolving(settings, settings.selectedBehaviors.a))).value
          /\ shown.value.lumiaPersonality =
                getLumiaContent(settings, "personality",
                    Arr(Resolving(settings, settings.selectedPersonalities.a))).value

\* a reference that does not resolve leaves storage only with its pack
LeavesOnlyWithPack ==
    /\ \A key \in {"selectedBehaviors", "selectedPersonalities"} :
          \A k \in Dangling(settings, settings[key].a) :
              (\A j \in 1..Len(settings'[key].a) : settings'[key].a[j] # settings[key].a[k])
                  => /\ HasPack(settings, settings[key].a[k].packName)
                     /\ ~HasPack(settings', settings[key].a[k].packName)
    /\ (/\ IsRef(settings.selectedDefinition)
        /\ ~Resolves(settings, settings.selectedDefinition)
        /\ settings'.selectedDefinition = JSNull)
          => /\ HasPack(settings, settings.selectedDefinition.packName)
             /\ ~HasPack(settings', settings.selectedDefinition.packName)

\* C20: refreshUI, getLumiaContent and the three macros change no stored
\* selection; a SelectionRef that does not resolve is left out of the text
\* they produce and stays in storage, and it leaves storage only when its
\* pack is removed.
C20_RenderingKeepsSelections ==
    /\ []RenderedWithoutDangling
    /\ [][/\ (RefreshUI \/ EvalMacros) => UNCHANGED <<settings, extension_settings>>
          /\ LeavesOnlyWithPack]_vars

\* a rendering that names the one behavior that resolves, while the
\* reference that does not is still stored
C20_Witness ==
    /\ ShowsLists
    /\ shown.value.behaviors = Str(<<"Cleo">>)
    /\ Dangling(settings, settings.selectedBehaviors.a) # {}
    /\ Dangling(settings, settings.selectedPersonalities.a) # {}
    /\ shown.value.personalities = Str(<<"No personalities selected">>)

-----------------------------------------------------------------------------
(* C21: an import installs one whole pack or changes nothing *)

\* { name, items, url } held under its name, the items an array
IsCompletePack(key, pack) ==
    /\ pack.t = "object"
    /\ DOMAIN pack = {"t", "name", "items", "url"}
    /\ pack.name = key
    /\ key.t = "string"
    /\ pack.items.t = "array"
    /\ pack.url.t = "string"

PacksComplete(s) ==
    /\ Len(s.packs.keys) = Len(s.packs.values)
    /\ \A k \in 1..PackCount(s) : IsCompletePack(s.packs.keys[k], s.packs.values[k])
    /\ \A j, k \in 1..PackCount(s) : j # k => s.packs.keys[j] # s.packs.keys[k]

AllSelections == SingleSelections \cup MultiSelections
                 \cup {"selectedLoomStyle", "selectedLoomUtils", "selectedLoomRetrofits"}

SelectionsKept == \A key \in AllSelections : settings'[key] = settings[key]

\* the packs under the other names are those of before
OtherPacksKept(sourceName) ==
    \A name \in PackNames \ {sourceName} :
        PackAt(settings', name) = PackAt(settings, name)

\* what an import of the library under the name has done in a step
ImportOutcome(library, sourceName, isURL, overwrite) ==
    IF Len(library) = 0 \/ (HasPack(settings, sourceName) /\ ~overwrite)
    THEN settings'.packs = settings.packs /\ SelectionsKept
    ELSE /\ PackAt(settings', sourceName) =
               Pack(sourceName, Arr(library),
                    IF isURL THEN sourceName ELSE Str(<<>>))
         /\ OtherPacksKept(sourceName)
         /\ SelectionsKept

\* C21: in every reachable state each entry of the packs mapping is a complete
\* pack whose name equals its key; an import that finds no valid entry, or
\* whose overwrite the user declines, leaves the packs mapping and all
\* selections unchanged, and any other import installs under its source name
\* the pack assembled from the whole book and nothing else.
C21_ImportWholePackOrNothing ==
    /\ [](Ready => PacksComplete(settings) /\ PacksComplete(extension_settings))
    /\ [][\A data \in ImportBooks :
             \E library \in {index_processWorldBook(data)} :
                 \A overwrite \in BOOLEAN :
                     ImportLibrary(library, Str(<<"P">>), FALSE, overwrite)
                         => ImportOutcome(library, Str(<<"P">>), FALSE, overwrite)]_vars

\* a book imported from a file next to the stored pack
C21_Witness ==
    /\ Ready
    /\ settings.packs.keys = <<Str(<<"Q">>), Str(<<"P">>)>>
    /\ PackAt(settings, Str(<<"P">>)).url = Str(<<>>)
    /\ Len(PackAt(settings, Str(<<"P">>)).items.a) = 1
    /\ PackAt(settings, Str(<<"P">>)).items.a[1].lumiaDefName = Str(<<"Bob">>)
    /\ shown # Undefined

-----------------------------------------------------------------------------
(* fetchWorldBook: imports by URL, which may overlap *)

MaxFetches == 2

\* url.split('/').pop() || url
NameOfUrl(url) ==
    LET slashes == {k \in 1..Len(url.s) : url.s[k] = "/"}
        last == IF slashes = {} THEN url.s
                ELSE SubSeq(url.s, Max(slashes) + 1, Len(url.s))
    IN  Or(Str(last), url)

\* a call of fetchWorldBook: where it stands, the data its response held, and
\* the rank of its write to the packs mapping among the writes (0: no write)
Fetch(url) == [url |-> url, pc |-> "fetch", data |-> Undefined, wrote |-> 0]

Status(text) == Returned(Str(<<text>>))

\* fetchWorldBook up to await fetch(url); nothing happens for an empty url
FetchWorldBook(url) ==
    /\ Ready
    /\ Len(fetches) < MaxFetches
    /\ Truthy(url)
    /\ fetches' = Append(fetches, Fetch(url))
    /\ shown' = Status("Fetching...")
    /\ loaded' = Undefined
    /\ UNCHANGED <<settings, extension_settings, migrations>>
    /\ UNCHANGED <<metaVars, bookVars, mainVars, randomVars, mountVars, bridgeVars>>

\* the response arrives; one that is not ok ends the call in the catch block
ResponseArrives(k, ok) ==
    /\ fetches[k].pc = "fetch"
    /\ fetches' = [fetches EXCEPT ![k].pc = IF ok THEN "json" ELSE "failed"]
    /\ shown' = IF ok THEN Undefined ELSE Status("Error")
    /\ loaded' = Undefined
    /\ UNCHANGED <<settings, extension_settings, migrations>>
    /\ UNCHANGED <<metaVars, bookVars, mainVars, randomVars, mountVars, bridgeVars>>

\* response.json() rejects
JsonFails(k) ==
    /\ fetches[k].pc = "json"
    /\ fetches' = [fetches EXCEPT ![k].pc = "failed"]
    /\ shown' = Status("Error")
    /\ loaded' = Undefined
    /\ UNCHANGED <<settings, extension_settings, migrations>>
    /\ UNCHANGED <<metaVars, bookVars, mainVars, randomVars, mountVars, bridgeVars>>

\* the number of writes to the packs mapping made by the calls so far
Writes == Max({0} \cup {fetches[j].wrote : j \in 1..Len(fetches)})

\* response.json() resolves and handleNewBook runs, with the last segment of
\* the url as the name
JsonArrives(k, data, overwrite) ==
    /\ fetches[k].pc = "json"
    /\ \E name \in {NameOfUrl(fetches[k].url)} :
       \E library \in {index_processWorldBook(data)} :
          /\ ImportLibrary(library, name, TRUE, overwrite)
          /\ fetches' = [fetches EXCEPT
               ![k] = [url |-> @.url, pc |-> "done", data |-> data,
                       wrote |-> IF Len(library) = 0
                                    \/ (HasPack(settings, name) /\ ~overwrite)
                                 THEN 0 ELSE Writes + 1]]
    /\ loaded' = Undefined
    /\ UNCHANGED <<migrations, metaVars, bookVars, mainVars, randomVars, mountVars,
                   bridgeVars>>

\* urls with the same last segment, and one that ends in a slash
FetchUrls == {Str(<<"h", "/", "P">>), Str(<<"g", "/", "P">>), Str(<<"h", "/">>)}

InitFetch ==
    /\ IdleMeta /\ IdleBook /\ IdleMain
    /\ settings \in {DefaultSettings,
                     [DefaultSettings EXCEPT !.packs = PackMapping(<<ImportedPack>>)]}
    /\ extension_settings = settings
    /\ shown = Undefined /\ migrations = 0 /\ loaded = Undefined
    /\ IdleUI

NextFetch ==
    \/ \E url \in FetchUrls : FetchWorldBook(url)
    \/ \E k \in 1..Len(fetches), ok \in BOOLEAN : ResponseArrives(k, ok)
    \/ \E k \in 1..Len(fetches) : JsonFails(k)
    \/ \E k \in 1..Len(fetches), data \in ImportBooks, overwrite \in BOOLEAN :
          JsonArrives(k, data, overwrite)

SpecFetch == InitFetch /\ [][NextFetch]_vars

-----------------------------------------------------------------------------
(* C22: overlapping imports under one name *)

FetchNames == {NameOfUrl(url) : url \in FetchUrls}

\* the pack handleNewBook assembles for a call whose data has arrived
PackOfFetch(f) ==
    Pack(NameOfUrl(f.url), Arr(index_processWorldBook(f.data)), NameOfUrl(f.url))

\* the calls for the name that have written to the packs mapping
Writers(name) ==
    {k \in 1..Len(fetches) : NameOfUrl(fetches[k].url) = name /\ fetches[k].wrote > 0}

LastWriter(name) ==
    CHOOSE k \in Writers(name) :
        \A j \in Writers(name) : fetches[j].wrote <= fetches[k].wrote

\* the mapping holds under the name the pack of the call that wrote last
LastWriteHeld ==
    \A name \in FetchNames :
        Writers(name) # {} =>
            PackAt(settings, name) = PackOfFetch(fetches[LastWriter(name)])

\* the pack under a name changes only in the step in which a call for that
\* name completes, and then to the whole pack of that call
ChangedByCompletingImport ==
    \A name \in FetchNames :
        PackAt(settings', name) # PackAt(settings, name) =>
            \E k \in 1..Len(fetches) :
                /\ fetches[k].pc = "json"
                /\ fetches'[k].pc = "done"
                /\ NameOfUrl(fetches[k].url) = name
                /\ PackAt(settings', name) = PackOfFetch(fetches'[k])

\* C22: when fetchWorldBook imports for the same pack name overlap, in every
\* interleaving the packs mapping holds under that name, at each moment,
\* either the earlier pack or the complete pack of one of the imports, and
\* once the imports have completed it holds the pack of the import whose write
\* completed later.
C22_LaterWriteWins ==
    /\ [](PacksComplete(settings) /\ LastWriteHeld)
    /\ [][ChangedByCompletingImport]_vars

\* two calls for one name have both written, the one started first after the
\* one started second, with different books
C22_Witness ==
    /\ Len(fetches) = 2
    /\ fetches[1].url # fetches[2].url
    /\ NameOfUrl(fetches[1].url) = NameOfUrl(fetches[2].url)
    /\ fetches[1].pc = "done" /\ fetches[2].pc = "done"
    /\ fetches[2].wrote = 1 /\ fetches[1].wrote = 2
    /\ PackOfFetch(fetches[1]) # PackOfFetch(fetches[2])
    /\ PackAt(settings, NameOfUrl(fetches[1].url)) = PackOfFetch(fetches[1])

-----------------------------------------------------------------------------
(* C23: behavior fragments *)

HasBehaviorFragment(es) == \E k \in 1..Len(es) : IsBehaviorFragment(es[k])

LastBehaviorFragment(es) ==
    es[Max({k \in 1..Len(es) : IsBehaviorFragment(es[k])})]

\* C23: after any entry sequence, the behavior text of a name that has at
\* least one behavior-typed entry equals the trimmed content of its last
\* behavior-typed entry, whether personality entries with a behavior marker
\* come before or after it; in the script and in the extension's copy.
C23_BehaviorIsTrimmedLast ==
    (idx >= 1 /\ HasBehaviorFragment(Seen)) =>
        /\ lumiaMap[1].lumiaBehavior =
               Str(Trim(LastBehaviorFragment(Seen).content.s))
        /\ extMap[1].lumia_behavior =
               Str(Trim(LastBehaviorFragment(Seen).content.s))

-----------------------------------------------------------------------------
(* C24: the items of an older internal pack *)

HasLumiaName(item) == "lumiaDefName" \in DOMAIN item \/ "lumiaName" \in DOMAIN item

HasLoomCategory(item) == ~HasLumiaName(item) /\ "loomCategory" \in DOMAIN item

\* the value of the legacy field when the item has it, else that of the new
\* field, else the default
Renamed(item, legacy, new, default) ==
    IF legacy \in DOMAIN item THEN item[legacy]
    ELSE IF new \in DOMAIN item THEN item[new]
    ELSE default

LumiaItemOf(item) ==
    [t |-> "object",
     lumiaName |-> Renamed(item, "lumiaDefName", "lumiaName", JSNull),
     lumiaDefinition |-> Renamed(item, "lumiaDef", "lumiaDefinition", JSNull),
     lumiaPersonality |-> Renamed(item, "lumia_personality", "lumiaPersonality", JSNull),
     lumiaBehavior |-> Renamed(item, "lumia_behavior", "lumiaBehavior", JSNull),
     avatarUrl |-> Renamed(item, "lumia_img", "avatarUrl", JSNull),
     genderIdentity |->
        Renamed(item, "genderIdentity", "genderIdentity", Num(GENDER_SHE_HER)),
     authorName |-> Renamed(item, "defAuthor", "authorName", JSNull),
     version |-> Num(1)]

LoomItemFrom(item) ==
    [t |-> "object",
     loomName |-> Renamed(item, "loomName", "loomName", Undefined),
     loomContent |-> Renamed(item, "loomContent", "loomContent", Undefined),
     loomCategory |-> item.loomCategory,
     authorName |-> Renamed(item, "authorName", "authorName", JSNull),
     version |-> Num(1)]

\* the items of the shape, in their order, each converted
EachOf(items, kind) ==
    LET lumia(item) == HasLumiaName(item)
        loom(item) == HasLoomCategory(item)
        of == IF kind = "lumia" THEN SelectSeq(items, lumia)
              ELSE SelectSeq(items, loom)
    IN  [k \in 1..Len(of) |-> IF kind = "lumia" THEN LumiaItemOf(of[k])
                              ELSE LoomItemFrom(of[k])]

OlderInternalPack(p) ==
    ~Exposes(p) /\ ~HasEntries(p) /\ ~IsBareSequence(p) /\ HasItemsSequence(p)

\* C24: for an older internal pack, convertPack routes each element of items
\* by shape, keeping order: an item with a Lumia name field becomes exactly
\* one LumiaItem by field renaming, the legacy field winning over the new one
\* when both are set; any other item with a loomCategory becomes exactly one
\* LoomItem; an item with neither is dropped; every produced item and the
\* pack have version 1.
C24_ItemsRoutedByShape ==
    (Converted /\ OlderInternalPack(inputData)) =>
        /\ convertedPack.lumiaItems = Arr(EachOf(inputData.items.a, "lumia"))
        /\ convertedPack.loomItems = Arr(EachOf(inputData.items.a, "loom"))
        /\ convertedPack.version = Num(1)
        /\ \A k \in 1..Len(convertedPack.lumiaItems.a) :
              convertedPack.lumiaItems.a[k].version = Num(1)
        /\ \A k \in 1..Len(convertedPack.loomItems.a) :
              convertedPack.loomItems.a[k].version = Num(1)

\* an item with both name fields and a loomCategory, then a Loom item: one
\* LumiaItem with the legacy definition, one LoomItem
C24_Witness ==
    /\ Converted /\ OlderInternalPack(inputData)
    /\ Len(inputData.items.a) = 2
    /\ HasLumiaName(inputData.items.a[1])
    /\ "loomCategory" \in DOMAIN inputData.items.a[1]
    /\ HasLoomCategory(inputData.items.a[2])
    /\ Len(convertedPack.lumiaItems.a) = 1
    /\ convertedPack.lumiaItems.a[1].lumiaName = Str(<<"Cleo">>)
    /\ convertedPack.lumiaItems.a[1].lumiaDefinition = Str(<<"d">>)
    /\ Len(convertedPack.loomItems.a) = 1
    /\ convertedPack.loomItems.a[1].loomName = Str(<<"Gothic">>)

-----------------------------------------------------------------------------
(* react-ui: mounting and unmounting React roots *)

MaxRoots == 3

SETTINGS_ROOT == "lumiverse-settings-root"
VIEWPORT_ROOT == "lumiverse-viewport-root"
REACT_ROOT == "lumiverse-react-root"

\* the module's state: the Map, the roots created, the elements in the
\* document (each element is that of a root and has the root's mount id)
Mounts == [mountedRoots |-> mountedRoots, roots |-> roots, dom |-> dom]

\* mountedRoots.has(mountId), mountedRoots.get(mountId).root
HasRoot(m, mountId) == \E e \in m.mountedRoots : e.id = mountId
RootAt(m, mountId) == (CHOOSE e \in m.mountedRoots : e.id = mountId).root

\* mountedRoots.delete(mountId)
MapDelete(m, mountId) ==
    [m EXCEPT !.mountedRoots = {e \in @ : e.id # mountId}]

\* document.getElementById(id): the elements of that id in the document
ElementsById(m, id) == {r \in m.dom : m.roots[r].id = id}

\* createElement, appendChild, ReactDOM.createRoot, render, mountedRoots.set
CreateRoot(m, mountId) ==
    LET r == Len(m.roots) + 1
    IN  [mountedRoots |-> MapDelete(m, mountId).mountedRoots
                          \cup {[id |-> mountId, root |-> r]},
         roots |-> Append(m.roots, [id |-> mountId, mounted |-> TRUE]),
         dom |-> m.dom \cup {r}]

\* mountSettingsPanel: nothing when an element of the id is in the document,
\* or when #extensions_settings is not
mountSettingsPanel(m, containerId, hasContainer) ==
    IF ElementsById(m, containerId) # {} THEN m
    ELSE IF ~hasContainer THEN m
    ELSE CreateRoot(m, containerId)

\* mountComponent: nothing when the Map has the id
mountComponent(m, mountId) ==
    IF HasRoot(m, mountId) THEN m ELSE CreateRoot(m, mountId)

\* unmount: root.unmount(), element.remove(), mountedRoots.delete
unmount(m, mountId) ==
    IF HasRoot(m, mountId)
    THEN LET r == RootAt(m, mountId)
         IN  [MapDelete(m, mountId) EXCEPT !.roots[r].mounted = FALSE,
                                           !.dom = @ \ {r}]
    ELSE m

\* a mountViewportPanel that unmounts the panel that is there
mountViewportPanel_Unmounting(m) ==
    CreateRoot(unmount(m, VIEWPORT_ROOT), VIEWPORT_ROOT)

\* mountViewportPanel: an element of the id is taken out of the document and
\* its entry out of the Map, then the panel is mounted
mountViewportPanel(m) ==
    LET existing == ElementsById(m, VIEWPORT_ROOT)
        removed == IF existing # {}
                   THEN [MapDelete(m, VIEWPORT_ROOT) EXCEPT
                            !.dom = @ \ {CHOOSE r \in existing : TRUE}]
                   ELSE m
    IN  CreateRoot(removed, VIEWPORT_ROOT)

\* unmountAll: unmount for every key of the Map
RECURSIVE UnmountEach(_, _)
UnmountEach(m, ids) ==
    IF ids = {} THEN m
    ELSE LET id == CHOOSE i \in ids : TRUE
         IN  UnmountEach(unmount(m, id), ids \ {id})

unmountAll(m) == UnmountEach(m, {e.id : e \in m.mountedRoots})

\* the module's state becomes m
SetMounts(m) ==
    /\ mountedRoots' = m.mountedRoots
    /\ roots' = m.roots
    /\ dom' = m.dom

MountSettingsPanel(containerId, hasContainer) ==
    /\ Len(roots) < MaxRoots
    /\ SetMounts(mountSettingsPanel(Mounts, containerId, hasContainer))
    /\ UNCHANGED <<metaVars, bookVars, mainVars, settingsVars>>
    /\ UNCHANGED <<fetchVars, randomVars, bridgeVars>>

MountViewportPanel ==
    /\ Len(roots) < MaxRoots
    /\ SetMounts(mountViewportPanel(Mounts))
    /\ UNCHANGED <<metaVars, bookVars, mainVars, settingsVars>>
    /\ UNCHANGED <<fetchVars, randomVars, bridgeVars>>

MountComponent(id) ==
    /\ Len(roots) < MaxRoots
    /\ SetMounts(mountComponent(Mounts, id))
    /\ UNCHANGED <<metaVars, bookVars, mainVars, settingsVars>>
    /\ UNCHANGED <<fetchVars, randomVars, bridgeVars>>

Unmount(mountId) ==
    /\ SetMounts(unmount(Mounts, mountId))
    /\ UNCHANGED <<metaVars, bookVars, mainVars, settingsVars>>
    /\ UNCHANGED <<fetchVars, randomVars, bridgeVars>>

UnmountAll ==
    /\ SetMounts(unmountAll(Mounts))
    /\ UNCHANGED <<metaVars, bookVars, mainVars, settingsVars>>
    /\ UNCHANGED <<fetchVars, randomVars, bridgeVars>>

\* ids a caller mounts under: those of the panels, and one made from the clock
MountIds == {SETTINGS_ROOT, VIEWPORT_ROOT, REACT_ROOT, "lumiverse-mount-1"}

InitMount ==
    /\ IdleMeta /\ IdleBook /\ IdleMain /\ IdleSettings /\ IdleUI

NextMount ==
    \/ \E containerId \in {SETTINGS_ROOT, REACT_ROOT}, hasContainer \in BOOLEAN :
          MountSettingsPanel(containerId, hasContainer)
    \/ MountViewportPanel
    \/ \E id \in MountIds : MountComponent(id)
    \/ \E mountId \in MountIds : Unmount(mountId)
    \/ UnmountAll

SpecMount == InitMount /\ [][NextMount]_vars

-----------------------------------------------------------------------------
(* C25: every live root is in the Map *)

\* the root has been created and root.unmount() has not been called
Live(r) == roots[r].mounted

LiveRootsRecorded ==
    \A r \in 1..Len(roots) :
        Live(r) => [id |-> roots[r].id, root |-> r] \in mountedRoots

OneRootPerId ==
    /\ \A a, b \in mountedRoots : a.id = b.id => a = b
    /\ \A r, q \in 1..Len(roots) :
          (Live(r) /\ Live(q) /\ roots[r].id = roots[q].id) => r = q

\* C25: after any sequence of mountSettingsPanel, mountViewportPanel,
\* mountComponent and unmount calls, every React root that was created and
\* not yet unmounted is recorded in mountedRoots under its mount id, with at
\* most one root per id; hence after unmountAll no created root is left
\* mounted.
C25_LiveRootsInMap ==
    /\ [](LiveRootsRecorded /\ OneRootPerId)
    /\ [][UnmountAll => \A r \in 1..Len(roots') : ~roots'[r].mounted]_vars

-----------------------------------------------------------------------------
(* C26: the default output path *)

\* C26: when no output path is given, the converter's output path differs
\* from its input path for every input path, so a run never overwrites its
\* own input file.
C26_OutputNeverInput ==
    /\ []((Len(argv) = 1) => ResolvedOutput(argv) # ResolvedInput(argv))
    /\ [][(WriteOutput /\ Len(argv) = 1) => inputFile' = inputFile]_vars

-----------------------------------------------------------------------------
(* The extension from settings without packs and without selections *)

\* what the book processor returns for a book with a Lumia entry and a Loom
\* entry of each category: the Loom items sit in the items of the pack, where
\* showLoomSelectionModal looks for them
LoomLibrary ==
    <<FullItem("Cleo"), LoomItem("Gothic", NARRATIVE_STYLE),
      LoomItem("Tool", LOOM_UTILITIES), LoomItem("Fix", RETROFITS)>>

\* handleNewBook for a fetched book that holds Loom entries
ImportLoomBook(sourceName, overwrite) ==
    /\ ImportLibrary(LoomLibrary, sourceName, TRUE, overwrite)
    /\ loaded' = Undefined
    /\ UNCHANGED <<migrations, metaVars, bookVars, mainVars, uiVars>>

InitFresh ==
    /\ IdleMeta /\ IdleBook /\ IdleMain /\ IdleUI
    /\ settings = DefaultSettings
    /\ extension_settings = Undefined
    /\ shown = Undefined /\ migrations = 0 /\ loaded = Undefined

NextFresh ==
    \/ LoadSettings
    \/ \E data \in ImportBooks, overwrite \in BOOLEAN :
          HandleNewBook(data, Str(<<"P">>), FALSE, overwrite)
    \/ \E overwrite \in BOOLEAN : ImportLoomBook(Str(<<"Q">>), overwrite)
    \/ \E packName \in PackNames : RemovePack(packName)
    \/ \E c \in Clicks : SelectItem(c.kind, c.packName, c.itemName)
    \/ \E c \in LoomClicks : SelectLoomItem(c.kind, c.packName, c.itemName)

SpecFresh == InitFresh /\ [][NextFresh]_vars

-----------------------------------------------------------------------------
(* C27: the packs the stored selections name *)

\* every SelectionRef under the keys names a pack of the mapping
RefsNamePacks(s, singles, multis) ==
    /\ \A key \in singles : IsRef(s[key]) => HasPack(s, s[key].packName)
    /\ \A key \in multis :
          \A k \in 1..Len(s[key].a) : HasPack(s, s[key].a[k].packName)

\* the definition, behavior and personality selections name packs that are
\* present
LumiaRefsNamePacks ==
    Ready => RefsNamePacks(settings, {"selectedDefinition"},
                           {"selectedBehaviors", "selectedPersonalities"})

-----------------------------------------------------------------------------
(* C28: clicks on the items of a multi-selection *)

\* the (packName, itemName) pairs of a list of selections
Pairs(sels) ==
    {<<Get(sels[k], "packName"), Get(sels[k], "itemName")>> : k \in 1..Len(sels)}

NoDuplicates(sels) ==
    \A j, k \in 1..Len(sels) :
        (/\ Get(sels[j], "packName") = Get(sels[k], "packName")
         /\ Get(sels[j], "itemName") = Get(sels[k], "itemName")) => j = k

IsSelected(sels, ref) == <<ref.packName, ref.itemName>> \in Pairs(sels)

Without(sels, ref) ==
    LET other(sel) == sel # ref
    IN  SelectSeq(sels, other)

\* the list a click handler of the kind works on
ListOf(kind) ==
    CASE kind = "behavior" -> "selectedBehaviors"
      [] kind = "personality" -> "selectedPersonalities"
      [] kind = LOOM_UTILITIES -> "selectedLoomUtils"
      [] kind = RETROFITS -> "selectedLoomRetrofits"

\* the step is a click on the item in a modal of the kind
ClickOn(c) ==
    IF c.kind \in {"behavior", "personality"}
    THEN SelectItem(c.kind, c.packName, c.itemName)
    ELSE SelectLoomItem(c.kind, c.packName, c.itemName)

MultiClicks ==
    {c \in Clicks \cup LoomClicks : c.kind \notin {"definition", NARRATIVE_STYLE}}

\* what the click has done to its list, and what the same click does next
Toggled(before, after, ref) ==
    /\ ~IsSelected(before, ref) => after = Append(before, ref)
    /\ IsSelected(before, ref) => after = Without(before, ref)
    /\ IsSelected(after, ref) # IsSelected(before, ref)
    /\ Pairs(Toggle(after, ref)) = Pairs(before)

\* C28: from multi-selection lists without duplicates, after any sequence of
\* item clicks each list holds every (packName, itemName) pair at most once;
\* a click on an unselected item appends it, a click on a selected item
\* removes it, and the same click once more restores the set of selected
\* pairs of before.
C28_ClicksToggle ==
    /\ [](Ready => \A key \in MultiSelections :
                       /\ NoDuplicates(settings[key].a)
                       /\ NoDuplicates(extension_settings[key].a))
    /\ [][\A c \in MultiClicks :
             ClickOn(c) =>
                 /\ Toggled(settings[ListOf(c.kind)].a, settings'[ListOf(c.kind)].a,
                            Ref(c.packName, c.itemName))
                 /\ \A key \in MultiSelections \ {ListOf(c.kind)} :
                       settings'[key] = settings[key]]_vars

\* two behaviors selected, the one clicked last behind the other, and a Loom
\* utility selected
C28_Witness ==
    /\ Ready
    /\ settings.selectedBehaviors.a =
          <<Ref(Str(<<"Q">>), Str(<<"Cleo">>)), Ref(Str(<<"P">>), Str(<<"Aria">>))>>
    /\ settings.selectedPersonalities.a = <<>>
    /\ Len(settings.selectedLoomUtils.a) = 1

-----------------------------------------------------------------------------
(* reactBridge: initializeReactUI and destroyReactUI *)

MaxInits == 3

\* () => unmount(id), what the mount functions return
CleanupOf(id) == [t |-> "function", id |-> id]

\* a call of initializeReactUI: where it stands, whether it is the call whose
\* loadReactBundle appended the script tag, and whether it was given a
\* container
InitCall(at, script, container) ==
    [pc |-> at, script |-> script, container |-> container]

\* document.querySelector(`script[src*="ui.bundle.js"]`)
ScriptTagExists == \E k \in 1..Len(initCalls) : initCalls[k].script

\* the call awaits loadReactBundle
Awaiting(k) == initCalls[k].pc \in {"loading", "polling"}

\* lines 246-280 of initializeReactUI: the bridge API, the two mounts,
\* setupEventSync, reactUILoaded = true
MountPanels(container, hasContainer) ==
    \E settingsMounted \in
        {IF container THEN mountSettingsPanel(Mounts, REACT_ROOT, hasContainer)
         ELSE Mounts} :
        /\ cleanupFn' =
              IF ~container THEN cleanupFn
              ELSE IF ElementsById(Mounts, REACT_ROOT) # {} \/ hasContainer
              THEN CleanupOf(REACT_ROOT)
              ELSE JSNull
        /\ SetMounts(mountViewportPanel(settingsMounted))
        /\ viewportCleanupFn' = CleanupOf(VIEWPORT_ROOT)
        /\ listeners' = listeners + 1
        /\ reactUILoaded' = TRUE
        /\ mountRuns' = mountRuns + 1

\* initializeReactUI up to its first await, or to its end when it does not
\* await: it returns at once when the UI counts as loaded, runs through when
\* window.LumiverseUI is there, and else awaits loadReactBundle, which
\* appends the script tag or polls when the tag is there
InitializeReactUI(container, hasContainer) ==
    /\ Len(initCalls) < MaxInits
    /\ IF reactUILoaded
       THEN /\ initCalls' = Append(initCalls, InitCall("returned", FALSE, container))
            /\ UNCHANGED <<reactUILoaded, cleanupFn, viewportCleanupFn, listeners,
                           mountRuns, mountVars>>
       ELSE IF bundleLoaded
       THEN /\ initCalls' = Append(initCalls, InitCall("done", FALSE, container))
            /\ MountPanels(container, hasContainer)
       ELSE /\ initCalls' =
                  Append(initCalls,
                         IF ScriptTagExists
                         THEN InitCall("polling", FALSE, container)
                         ELSE InitCall("loading", TRUE, container))
            /\ UNCHANGED <<reactUILoaded, cleanupFn, viewportCleanupFn, listeners,
                           mountRuns, mountVars>>
    /\ UNCHANGED bundleLoaded
    /\ UNCHANGED <<metaVars, bookVars, mainVars, settingsVars, fetchVars, randomVars>>

\* the bundle script has run: window.LumiverseUI is there
BundleLoads ==
    /\ ~bundleLoaded
    /\ \E k \in 1..Len(initCalls) : initCalls[k].pc = "loading"
    /\ bundleLoaded' = TRUE
    /\ UNCHANGED <<reactUILoaded, cleanupFn, viewportCleanupFn, listeners,
                   initCalls, mountRuns, mountVars>>
    /\ UNCHANGED <<metaVars, bookVars, mainVars, settingsVars, fetchVars, randomVars>>

\* script.onerror for the call that appended the tag, the timeout for a call
\* that polls: loadReactBundle rejects and initializeReactUI returns false
LoadFails(k) ==
    /\ Awaiting(k)
    /\ ~bundleLoaded
    /\ initCalls' = [initCalls EXCEPT ![k].pc = "failed"]
    /\ UNCHANGED <<reactUILoaded, cleanupFn, viewportCleanupFn, bundleLoaded,
                   listeners, mountRuns, mountVars>>
    /\ UNCHANGED <<metaVars, bookVars, mainVars, settingsVars, fetchVars, randomVars>>

\* loadReactBundle resolves and the call runs from line 242 to its end
InitResumes(k, hasContainer) ==
    /\ Awaiting(k)
    /\ bundleLoaded
    /\ initCalls' = [initCalls EXCEPT ![k].pc = "done"]
    /\ MountPanels(initCalls[k].container, hasContainer)
    /\ UNCHANGED bundleLoaded
    /\ UNCHANGED <<metaVars, bookVars, mainVars, settingsVars, fetchVars, randomVars>>

\* destroyReactUI: the two cleanup functions, unmountAll, reactUILoaded = false
DestroyReactUI ==
    \E settingsGone \in
        {IF cleanupFn # JSNull THEN unmount(Mounts, cleanupFn.id) ELSE Mounts} :
    \E viewportGone \in
        {IF viewportCleanupFn # JSNull
         THEN unmount(settingsGone, viewportCleanupFn.id)
         ELSE settingsGone} :
        /\ SetMounts(IF bundleLoaded THEN unmountAll(viewportGone) ELSE viewportGone)
        /\ cleanupFn' = JSNull
        /\ viewportCleanupFn' = JSNull
        /\ reactUILoaded' = FALSE
        /\ mountRuns' = 0
        /\ UNCHANGED <<bundleLoaded, listeners, initCalls>>
        /\ UNCHANGED <<metaVars, bookVars, mainVars, settingsVars, fetchVars, randomVars>>

InitBridge ==
    /\ IdleMeta /\ IdleBook /\ IdleMain /\ IdleSettings /\ IdleUI

NextBridge ==
    \/ \E container, hasContainer \in BOOLEAN :
          InitializeReactUI(container, hasContainer)
    \/ BundleLoads
    \/ \E k \in 1..Len(initCalls) : LoadFails(k)
    \/ \E k \in 1..Len(initCalls), hasContainer \in BOOLEAN :
          InitResumes(k, hasContainer)
    \/ DestroyReactUI

SpecBridge == InitBridge /\ [][NextBridge]_vars

-----------------------------------------------------------------------------
(* C29: one listener, one mount per loaded period *)

\* C29: after any interleaving of initializeReactUI and destroyReactUI calls,
\* overlapping initializeReactUI calls included, the bridge has registered at
\* most one CHAT_CHANGED listener, and has run the mount of the settings and
\* viewport panels at most once since the UI last began to count as loaded.
C29_OneListenerOneMount ==
    /\ listeners <= 1
    /\ mountRuns <= 1

-----------------------------------------------------------------------------
(* The randomLumia macros *)

\* allItems: the items of every pack that has any, in the order of the packs
AllItems(s) ==
    Flatten([k \in 1..PackCount(s) |->
                IF Truthy(Get(s.packs.values[k], "items"))
                THEN s.packs.values[k].items.a
                ELSE <<>>])

\* an ensureRandomLumia that chooses at every evaluation
ensureRandomLumia_Rechoosing(current, s, randomIndex) ==
    IF Len(AllItems(s)) = 0 THEN current
    ELSE AllItems(s)[randomIndex + 1]

\* ensureRandomLumia: the choice that is there is kept; else an item is
\* chosen when the packs hold any
ensureRandomLumia(current, s, randomIndex) ==
    IF Truthy(current) THEN current
    ELSE IF Len(AllItems(s)) = 0 THEN current
    ELSE AllItems(s)[randomIndex + 1]

RandomMacros ==
    {"randomLumia", "randomLumia.phys", "randomLumia.pers", "randomLumia.behav",
     "randomLumia.name"}

\* the field of the item a macro reads
FieldOf(macro) ==
    CASE macro = "randomLumia.pers" -> "lumia_personality"
      [] macro = "randomLumia.behav" -> "lumia_behavior"
      [] macro = "randomLumia.name" -> "lumiaDefName"
      [] OTHER -> "lumiaDef"

\* currentRandomLumia ? (currentRandomLumia.field || "") : ""
RandomText(current, macro) ==
    IF Truthy(current) THEN Or(Get(current, FieldOf(macro)), Str(<<>>))
    ELSE Str(<<>>)

\* Math.floor(Math.random() * allItems.length)
RandomIndices(s) == 0..Max({Len(AllItems(s)) - 1, 0})

\* one of the randomLumia macros is evaluated
EvalRandomMacro(macro, randomIndex) ==
    \E chosen \in {ensureRandomLumia(currentRandomLumia, settings, randomIndex)} :
        /\ settings # Undefined
        /\ currentRandomLumia' = chosen
        /\ shown' = Returned(RandomText(chosen, macro))
        /\ loaded' = Undefined
        /\ UNCHANGED <<settings, extension_settings, migrations>>
        /\ UNCHANGED <<metaVars, bookVars, mainVars, fetchVars, mountVars, bridgeVars>>

\* the GENERATION_STARTED listener
GenerationStarted ==
    /\ settings # Undefined
    /\ currentRandomLumia' = JSNull
    /\ UNCHANGED <<metaVars, bookVars, mainVars, settingsVars>>
    /\ UNCHANGED <<fetchVars, mountVars, bridgeVars>>

InitRandom == InitSettings

NextRandom ==
    \/ LoadSettings
    \/ \E data \in ImportBooks, overwrite \in BOOLEAN :
          HandleNewBook(data, Str(<<"P">>), FALSE, overwrite)
    \/ \E packName \in PackNames : RemovePack(packName)
    \/ \E macro \in RandomMacros, randomIndex \in RandomIndices(settings) :
          EvalRandomMacro(macro, randomIndex)
    \/ GenerationStarted

SpecRandom == InitRandom /\ [][NextRandom]_vars

-----------------------------------------------------------------------------
(* C30: one random item per generation *)

\* the items of the loaded packs
LoadedItems == {AllItems(settings)[k] : k \in 1..Len(AllItems(settings))}

\* C30: between two consecutive GENERATION_STARTED events every evaluation of
\* the randomLumia macros reads one and the same item: an evaluation chooses
\* an item among those of the loaded packs only when no choice is there,
\* every macro returns the text of its field of the chosen item, the choice
\* changes with no other step, and each GENERATION_STARTED event clears it.
C30_OneItemPerGeneration ==
    [][/\ GenerationStarted => currentRandomLumia' = JSNull
       /\ (currentRandomLumia # JSNull /\ ~GenerationStarted)
             => currentRandomLumia' = currentRandomLumia
       /\ (currentRandomLumia = JSNull /\ currentRandomLumia' # JSNull)
             => /\ currentRandomLumia' \in LoadedItems
                /\ \E macro \in RandomMacros :
                      shown' = Returned(RandomText(currentRandomLumia', macro))
       /\ \A macro \in RandomMacros, randomIndex \in RandomIndices(settings) :
             EvalRandomMacro(macro, randomIndex) =>
                 /\ shown' = Returned(Or(Get(currentRandomLumia', FieldOf(macro)),
                                         Str(<<>>)))
                 /\ currentRandomLumia = JSNull =>
                       (currentRandomLumia' = JSNull) = (LoadedItems = {})]_vars

\* the personality of the item chosen earlier in the generation, read after
\* the pack of the item has been removed
C30_Witness ==
    /\ Ready
    /\ PackCount(settings) = 0
    /\ currentRandomLumia = FullItem("Aria")
    /\ shown = Returned(Str(<<"p", "Aria", NL>>))

=============================================================================
